---- MODULE Spec2Model ----
(***************************************************************************)
(* A model of the NES emulator core: the frame driver of main.rs, the bus  *)
(* and OAM DMA engine of memory.rs, the CPU interpreter of cpu.rs and the  *)
(* register interface, dot clock and rendering pipeline of ppu.rs.         *)
(*                                                                         *)
(* The machine is the triple (cpu, ppu, memory) that main.rs owns.  One    *)
(* iteration of the loop in on_emulation_cycle is one step of the driver.  *)
(* A Rust panic is recorded in `panicked` and stops the machine.           *)
(*                                                                         *)
(* Not modelled: the framebuffer `output` and the colour looked up for it   *)
(* (ppu.rs 560-571); nothing in the machine reads them back.               *)
(***************************************************************************)
EXTENDS Integers, Sequences, FiniteSets, TLC

VARIABLES
    cpu,              \* Cpu: pc, sp, a, x, y, flags, cycles
    ppu,              \* Ppu: registers, latches, position, OAM, VRAM overlays
    memory,           \* Memory: ram, pgr_rom, chr_rom, controllers, DMA fields
    i,                \* loop index of on_emulation_cycle
    frame,            \* completed calls of on_emulation_cycle
    panicked,         \* "" or the message of the panic that ended the run
    overflow_checks,  \* TRUE: integer overflow panics (debug build); FALSE: it wraps
    mode,             \* which harness drives the machine
    hist              \* history variables (observations only, never read by the machine)

vars == <<cpu, ppu, memory, i, frame, panicked, overflow_checks, mode, hist>>

(***************************************************************************)
(* Bit arithmetic on unsigned machine integers.                            *)
(***************************************************************************)
\* bitflags `contains` for a single-bit mask
Contains(bits, mask) == (bits \div mask) % 2 = 1

\* bitflags `set(mask, value)` for a single-bit mask
SetFlag(bits, mask, value) ==
    IF value THEN (IF Contains(bits, mask) THEN bits ELSE bits + mask)
    ELSE (IF Contains(bits, mask) THEN bits - mask ELSE bits)

\* u8 / u16 wrapping arithmetic
Wrap8(n) == n % 256
Wrap16(n) == n % 65536

\* x & 0xff00 and x & 0x00ff on a u16
HighPart(x) == (x \div 256) * 256
LowPart(x) == x % 256

(***************************************************************************)
(* cpu.rs 10-24: ProcessorState                                            *)
(***************************************************************************)
CARRY == 1
ZERO == 2
DISABLE_INTERRUPTS == 4
DECIMAL == 8
B_FLAG == 16
U_FLAG == 32
OVERFLOW == 64
NEGATIVE == 128

(***************************************************************************)
(* ppu.rs 63-98: PpuControl, PpuMask, PpuStatus                            *)
(***************************************************************************)
NAMETABLE_ADDR1 == 1
NAMETABLE_ADDR2 == 2
VRAM_ADDR_INCREMENT == 4
SPRITE_PATTERN_ADDR == 8
BACKROUND_PATTERN_ADDR == 16
SPRITE_SIZE == 32
GENERATE_NMI == 128
GREYSCALE == 1
SHOW_BACKGROUND_IN_LEFTMOST_PIXELS == 2
SHOW_SPRITES_IN_LEFTMOST_PIXELS == 4
SHOW_BACKGROUND == 8
SHOW_SPRITES == 16
SPRITE_OVERFLOW == 32
SPRITE_ZERO_HIT == 64
V_BLANK == 128

\* ppu.rs 9
CYCLES_PER_FRAME == (341 \div 3) * (262 + 1)

\* ppu.rs 111-114
rendering_enabled(mask) == Contains(mask, SHOW_BACKGROUND) \/ Contains(mask, SHOW_SPRITES)

(***************************************************************************)
(* ppu.rs 122-163: LoopyRegister                                           *)
(***************************************************************************)
\* LoopyRegister::from / set
LoopyFrom(value) ==
    [ coarse_x     |-> value % 32,
      coarse_y     |-> (value \div 32) % 32,
      name_table_x |-> (value \div 1024) % 2,
      name_table_y |-> (value \div 2048) % 2,
      fine_y       |-> (value \div 4096) % 8 ]

\* LoopyRegister::bits
LoopyBits(l) ==
      (l.coarse_x % 32)
    + (l.coarse_y % 32) * 32
    + (l.name_table_x % 2) * 1024
    + (l.name_table_y % 2) * 2048
    + (l.fine_y % 8) * 4096

(***************************************************************************)
(* The cartridge: the parsed ROM image that Memory::default copies into    *)
(* pgr_rom and chr_rom (memory.rs 130-151).  The image is the input of a   *)
(* run; the test cartridges below are small programs for the modelled      *)
(* subset of the decode table.                                             *)
(*                                                                         *)
(*   delay(ny, nx):  LDY #ny / L1: LDX #nx / L2: DEX / BNE L2 / DEY / BNE L1 *)
(***************************************************************************)
Delay(ny, nx) == << \hA0, ny, \hA2, nx, \hCA, \hD0, \hFD, \h88, \hD0, \hF8 >>

\* Cartridge "dma3": LDA #$80 / STA $2000 (NMI on) / STA $4014 / delay /
\* STA $4014 (spans the end of the first driver call) / delay /
\* STA $4014 (in flight when VBLANK starts) / idle: JMP idle
CodeDma3 ==
       << \hA9, \h80, \h8D, \h00, \h20, \h8D, \h14, \h40 >>
    \o Delay(7, 255) \o << \h8D, \h14, \h40 >>
    \o Delay(14, 240) \o << \h8D, \h14, \h40 >>
    \o << \h4C, \h22, \h80 >>

\* Cartridge "ram7": LDA #$07 / STA $0707 / JMP +3 / STA $4014 (page 7 of
\* RAM, NMI left off) / idle: JMP idle
CodeRam7 ==
    << \hA9, \h07, \h8D, \h07, \h07, \h4C, \h08, \h80,
       \h8D, \h14, \h40, \h4C, \h0B, \h80 >>

\* Cartridge "hit": LDA #$08 / STA $0207 (x of sprite 1) / LDA #$02 /
\* STA $4014 (page 2 of RAM) / LDA #$18 / STA $2001 (background and sprites
\* shown, the leftmost eight pixels hidden) / idle: JMP idle
CodeHit ==
    << \hA9, \h08, \h8D, \h07, \h02, \hA9, \h02, \h8D, \h14, \h40,
       \hA9, \h18, \h8D, \h01, \h20, \h4C, \h0F, \h80 >>

\* Cartridge "top": JMP $FFFF, the last byte of the address space
CodeTop == << \h4C, \hFF, \hFF >>

Cartridges == {"dma3", "ram7", "hit", "top"}

Code(rom) ==
    IF rom = "dma3" THEN CodeDma3
    ELSE IF rom = "ram7" THEN CodeRam7
    ELSE IF rom = "hit" THEN CodeHit
    ELSE CodeTop

\* iNES byte 4 * 16384 (memory.rs 74)
PgrSize(rom) == IF rom = "dma3" THEN \h8000 ELSE \h4000

\* bytes of the image that are neither code nor vectors
Filler(offset) == (offset * 7 + 3) % 256

\* The image: code at offset 0 (CPU address 0x8000), the NMI handler, a lone
\* RTI, at offset 0x40, the NMI vector 0x8040 and the reset vector 0x8000 in
\* the last six bytes.
PrgImage(rom, offset) ==
    LET code == Code(rom)
        top  == PgrSize(rom)
    IN  IF offset < Len(code) THEN code[offset + 1]
        ELSE IF offset = \h40 THEN \h40
        ELSE IF offset = top - 6 THEN \h40
        ELSE IF offset = top - 5 THEN \h80
        ELSE IF offset = top - 4 THEN 0
        ELSE IF offset = top - 3 THEN \h80
        ELSE Filler(offset)

ChrImage(offset) == (offset * 5 + 1) % 256

\* an array held as its initial contents plus the cells written since
Get(overlay, index, initial) ==
    IF index \in DOMAIN overlay THEN overlay[index] ELSE initial

Put(overlay, index, value) ==
    [k \in DOMAIN overlay \cup {index} |-> IF k = index THEN value ELSE overlay[k]]

Empty == [k \in {} |-> 0]

PgrAt(m, offset) == Get(m.pgr_rom, offset, PrgImage(m.rom, offset))
ChrAt(m, offset) == Get(m.chr_rom, offset, ChrImage(offset))
RamAt(m, index) == Get(m.ram, index, 0)

(***************************************************************************)
(* A Rust function that works in stages is written as a chain of           *)
(* operators, each taking the result of the stage before it as a           *)
(* parameter.                                                              *)
(*                                                                         *)
(* Results of operations on the machine s = [cpu, ppu, memory, panic,      *)
(* checks, bus, entered, owed, ran, probe]: the new machine, and where     *)
(* there is one the value.  `bus` is the last PPU address the data port    *)
(* accessed, `entered` counts the calls of on_non_maskable_interrupt,      *)
(* `owed` is cpu.cycles when the last of them began, `ran` counts the      *)
(* calls of Cpu::execute, `probe` holds what the PPU tick found; none of   *)
(* them is ever read by the machine.                                       *)
(***************************************************************************)
Ret(s, v) == [s |-> s, value |-> v]
Panic(s, why) == [s EXCEPT !.panic = IF s.panic = "" THEN why ELSE s.panic]
Halted(s) == s.panic # ""

(***************************************************************************)
(* memory.rs 287-299: the cartridge as seen from the PPU                   *)
(***************************************************************************)
memory_read_byte_from_ppu(s, address) ==
    IF address <= \h1fff THEN <<TRUE, ChrAt(s.memory, address)>> ELSE <<FALSE, 0>>

memory_write_byte_from_ppu(s, address, value) ==
    IF address <= \h1fff
    THEN Ret([s EXCEPT !.memory.chr_rom = Put(@, address, value)], TRUE)
    ELSE Ret(s, FALSE)

(***************************************************************************)
(* ppu.rs 400-506: the PPU address space                                   *)
(***************************************************************************)
\* a faulty mirroring that keeps all four name tables in one bank
NameTableBankSingle(vertical, name_table_address) == 0

\* the physical bank a name-table address selects (ppu.rs 420-433, 475-488)
NameTableBank(vertical, name_table_address) ==
    IF vertical
    THEN (IF name_table_address <= \h3ff THEN 0
          ELSE IF name_table_address <= \h7ff THEN 1
          ELSE IF name_table_address <= \hbff THEN 0 ELSE 1)
    ELSE (IF name_table_address <= \h3ff THEN 0
          ELSE IF name_table_address <= \h7ff THEN 0
          ELSE IF name_table_address <= \hbff THEN 1 ELSE 1)

\* a faulty palette index without the mirrors of entries 0, 4, 8 and 12
PaletteIndexUnmirrored(address) == address % 32

\* ppu.rs 439-443, 496-500
PaletteIndex(address) ==
    LET palette_address == address % 32
    IN  IF palette_address = \h10 THEN 0
        ELSE IF palette_address = \h14 THEN 4
        ELSE IF palette_address = \h18 THEN 8
        ELSE IF palette_address = \h1c THEN 12
        ELSE palette_address

\* x & colour_mask for colour_mask 0x30 and 0x3f
Greyscale(x) == ((x \div 16) % 4) * 16

read_byte_from_ppu(s, addr) ==
    LET address == addr % 16384
        cart    == memory_read_byte_from_ppu(s, address)
    IN  IF cart[1] THEN cart[2]
        ELSE IF address >= \h2000 /\ address <= \h3eff
        THEN LET nta == address % 4096
             IN  Get(s.ppu.name_tables,
                     NameTableBank(s.memory.rom_header.vertical_mirroring, nta) * 1024
                         + (nta % 1024), 0)
        ELSE LET value == Get(s.ppu.palette, PaletteIndex(address), 0)
             IN  IF Contains(s.ppu.ppu_mask, GREYSCALE) THEN Greyscale(value)
                 ELSE value % 64

write_byte_from_ppu(s, addr, value) ==
    LET address == addr % 16384
        cart    == memory_write_byte_from_ppu(s, address, value)
    IN  IF cart.value THEN cart.s
        ELSE IF address >= \h2000 /\ address <= \h3eff
        THEN LET nta == address % 4096
             IN  [s EXCEPT !.ppu.name_tables =
                     Put(@, NameTableBank(s.memory.rom_header.vertical_mirroring, nta) * 1024
                              + (nta % 1024), value)]
        ELSE [s EXCEPT !.ppu.palette = Put(@, PaletteIndex(address), value)]

(***************************************************************************)
(* ppu.rs 264-398: the eight PPU registers on the CPU bus                  *)
(***************************************************************************)
OamAt(p, index) == Get(p.object_attribute_memory, index, 0)

\* `ppu_address += n` on a u16: a panic with overflow checks, a wrap without
AdvancePpuAddress(s, n) ==
    LET sum == s.ppu.ppu_address + n
    IN  IF sum > 65535 /\ s.checks THEN Panic(s, "attempt to add with overflow")
        ELSE [s EXCEPT !.ppu.ppu_address = Wrap16(sum)]

\* a faulty PPUSTATUS read that clears the whole register and keeps the latch
read_status_clearing_all(s) ==
    Ret([s EXCEPT !.ppu.ppu_status = 0], s.ppu.ppu_status)

\* ppu.rs 271-281: PPUSTATUS read
read_status(s) ==
    Ret([s EXCEPT !.ppu.ppu_status = SetFlag(@, V_BLANK, FALSE),
                  !.ppu.address_latch = FALSE],
        s.ppu.ppu_status)

\* ppu.rs 305-307: the step of ppu_address after a PPUDATA read
ReadIncrement(control, debugger) ==
    IF Contains(control, VRAM_ADDR_INCREMENT) /\ debugger THEN 32
    ELSE IF ~debugger THEN 1
    ELSE 0

\* ppu.rs 388-392: the step of ppu_address after a PPUDATA write
WriteIncrement(control) ==
    IF Contains(control, VRAM_ADDR_INCREMENT) THEN 32 ELSE 1

\* a faulty PPUDATA read without the read buffer's delay
read_data_unbuffered(s, debugger) ==
    LET fetched == read_byte_from_ppu(s, s.ppu.ppu_address)
        s1      == [s EXCEPT !.ppu.data_buffer = fetched, !.bus = s.ppu.ppu_address]
    IN  Ret(AdvancePpuAddress(s1, ReadIncrement(s.ppu.ppu_control, debugger)), fetched)

\* ppu.rs 294-309: PPUDATA read
read_data(s, debugger) ==
    LET fetched == read_byte_from_ppu(s, s.ppu.ppu_address)
        data    == IF s.ppu.ppu_address >= \h3f00 THEN fetched ELSE s.ppu.data_buffer
        s1      == [s EXCEPT !.ppu.data_buffer = fetched, !.bus = s.ppu.ppu_address]
    IN  Ret(AdvancePpuAddress(s1, ReadIncrement(s.ppu.ppu_control, debugger)), data)

read_byte_from_cpu(s, address, debugger) ==
    IF address = \h2000 \/ address = \h2001 THEN Ret(s, 0)
    ELSE IF address = \h2002 THEN read_status(s)
    ELSE IF address = \h2003 THEN Ret(s, 0)
    ELSE IF address = \h2004 THEN Ret(s, OamAt(s.ppu, s.ppu.oam_address))
    ELSE IF address = \h2005 \/ address = \h2006 THEN Ret(s, 0)
    ELSE IF address = \h2007 THEN read_data(s, debugger)
    ELSE Ret(Panic(s, "Could not map external PPU read"), 0)

\* ppu.rs 317-329: PPUCTRL write
write_control(s, value) ==
    LET loopy == LoopyFrom(s.ppu.table_ram_address)
    IN  [s EXCEPT !.ppu.ppu_control = value,
                  !.ppu.table_ram_address =
                      LoopyBits([loopy EXCEPT
                          !.name_table_x = IF Contains(value, NAMETABLE_ADDR1) THEN 1 ELSE 0,
                          !.name_table_y = IF Contains(value, NAMETABLE_ADDR2) THEN 1 ELSE 0])]

\* a faulty PPUSCROLL write that leaves the shared latch alone
write_scroll_keeping_latch(s, value) ==
    LET loopy == LoopyFrom(s.ppu.table_ram_address)
    IN  IF s.ppu.address_latch = FALSE
        THEN [s EXCEPT !.ppu.fine_x = value % 8,
                       !.ppu.table_ram_address =
                           LoopyBits([loopy EXCEPT !.coarse_x = value \div 8])]
        ELSE [s EXCEPT !.ppu.table_ram_address =
                           LoopyBits([loopy EXCEPT !.fine_y = value % 8,
                                                   !.coarse_y = value \div 8])]

\* ppu.rs 341-365: PPUSCROLL write
write_scroll(s, value) ==
    LET loopy == LoopyFrom(s.ppu.table_ram_address)
    IN  IF s.ppu.address_latch = FALSE
        THEN [s EXCEPT !.ppu.fine_x = value % 8,
                       !.ppu.table_ram_address =
                           LoopyBits([loopy EXCEPT !.coarse_x = value \div 8]),
                       !.ppu.address_latch = TRUE]
        ELSE [s EXCEPT !.ppu.table_ram_address =
                           LoopyBits([loopy EXCEPT !.fine_y = value % 8,
                                                   !.coarse_y = value \div 8]),
                       !.ppu.address_latch = FALSE]

\* a faulty PPUADDR write that keeps all eight bits of the high byte and
\* copies t to v on either write
write_address_unmasked(s, value) ==
    LET t == IF s.ppu.address_latch = FALSE
             THEN value * 256 + LowPart(s.ppu.table_ram_address)
             ELSE HighPart(s.ppu.table_ram_address) + value
    IN  [s EXCEPT !.ppu.table_ram_address = t,
                  !.ppu.ppu_address = t,
                  !.ppu.address_latch = ~@]

\* ppu.rs 368-385: PPUADDR write
write_address(s, value) ==
    IF s.ppu.address_latch = FALSE
    THEN [s EXCEPT !.ppu.table_ram_address =
                       (value % 64) * 256 + LowPart(s.ppu.table_ram_address),
                   !.ppu.address_latch = TRUE]
    ELSE LET t == HighPart(s.ppu.table_ram_address) + value
         IN  [s EXCEPT !.ppu.table_ram_address = t,
                       !.ppu.ppu_address = t,
                       !.ppu.address_latch = FALSE]

\* ppu.rs 388-395: PPUDATA write
write_data(s, value) ==
    LET s1 == write_byte_from_ppu(s, s.ppu.ppu_address, value)
    IN  AdvancePpuAddress([s1 EXCEPT !.bus = s.ppu.ppu_address],
                          WriteIncrement(s.ppu.ppu_control))

\* An OAMDATA write stores the byte and then, having no `return` (ppu.rs
\* 337), runs on to the panic at the end of the function (ppu.rs 397).
write_byte_from_cpu(s, address, value) ==
    IF address = \h2000 THEN write_control(s, value)
    ELSE IF address = \h2001 THEN [s EXCEPT !.ppu.ppu_mask = value]
    ELSE IF address = \h2003 THEN [s EXCEPT !.ppu.oam_address = value]
    ELSE IF address = \h2005 THEN write_scroll(s, value)
    ELSE IF address = \h2006 THEN write_address(s, value)
    ELSE IF address = \h2007 THEN write_data(s, value)
    ELSE LET s1 == IF address = \h2004
                   THEN [s EXCEPT !.ppu.object_attribute_memory =
                                      Put(@, s.ppu.oam_address, value)]
                   ELSE s
         IN  Panic(s1, "Could not map external PPU write")

(***************************************************************************)
(* memory.rs 156-275: the CPU bus                                          *)
(***************************************************************************)
\* the index into pgr_rom of a cartridge address, or -1 (memory.rs 191-195)
PgrIndex(m, address) ==
    IF address >= \h8000 /\ address <= \hbfff THEN address - \h8000
    ELSE IF address >= \hc000 /\ m.rom_header.pgr_size = \h4000 THEN address - \hc000
    ELSE IF address >= \hc000 /\ m.rom_header.pgr_size = \h8000 THEN address - \h8000
    ELSE -1

\* a faulty controller read that returns the top bit and does not shift
read_controller_without_shift(s, id) ==
    Ret(s, IF s.memory.internal_controller[id] >= 128 THEN 1 ELSE 0)

\* memory.rs 179-182: the top bit of the shift register, which moves up by one
read_controller(s, id) ==
    Ret([s EXCEPT !.memory.internal_controller[id] = (@ * 2) % 256],
        IF s.memory.internal_controller[id] >= 128 THEN 1 ELSE 0)

\* a faulty bus that answers 0 at an unmapped address in either mode
read_byte_lenient(s, address, debugger) ==
    IF address <= \h1fff THEN Ret(s, RamAt(s.memory, address % 2048))
    ELSE IF address >= \h2000 /\ address <= \h2007
    THEN read_byte_from_cpu(s, address, debugger)
    ELSE IF address = \h4016 \/ address = \h4017
    THEN read_controller(s, address % 2)
    ELSE IF address >= \h4000 /\ address <= \h401f THEN Ret(s, 0)
    ELSE IF address >= \h4020 /\ PgrIndex(s.memory, address) >= 0
    THEN Ret(s, PgrAt(s.memory, PgrIndex(s.memory, address)))
    ELSE Ret(s, 0)

read_byte(s, address, debugger) ==
    IF address <= \h1fff THEN Ret(s, RamAt(s.memory, address % 2048))
    ELSE IF address >= \h2000 /\ address <= \h2007
    THEN read_byte_from_cpu(s, address, debugger)
    ELSE IF address = \h4016 \/ address = \h4017
    THEN read_controller(s, address % 2)
    ELSE IF address >= \h4000 /\ address <= \h401f THEN Ret(s, 0)
    ELSE IF address >= \h4020 /\ PgrIndex(s.memory, address) >= 0
    THEN Ret(s, PgrAt(s.memory, PgrIndex(s.memory, address)))
    ELSE IF address >= \h4020 /\ debugger THEN Ret(s, 0)
    ELSE Ret(Panic(s, "Could not map memory read"), 0)

\* memory.rs 208: (high << 8) | low, the low byte read last
WordOf(high, low) == Ret(low.s, high.value * 256 + low.value)

\* memory.rs 207-208, given the high byte read at memory.rs 206
read_word_low(high, address, debugger) ==
    WordOf(high, read_byte(high.s, address, debugger))

\* memory.rs 204-209
read_word(s, address, debugger) ==
    read_word_low(read_byte(s, Wrap16(address + 1), debugger), address, debugger)

write_byte(s, address, value) ==
    IF address <= \h7ff THEN [s EXCEPT !.memory.ram = Put(@, address, value)]
    ELSE IF address >= \h2000 /\ address <= \h2007
    THEN write_byte_from_cpu(s, address, value)
    ELSE IF address >= \h4000 /\ address <= \h401f
    THEN IF address = \h4014
         THEN [s EXCEPT !.memory.dma_page = value,
                        !.memory.dma_address = 0,
                        !.memory.dma_happening = TRUE]
         ELSE IF address = \h4016 \/ address = \h4017
         THEN [s EXCEPT !.memory.internal_controller[address % 2] =
                            s.memory.controller[address % 2]]
         ELSE s
    ELSE IF address >= \h4020 /\ PgrIndex(s.memory, address) >= 0
    THEN [s EXCEPT !.memory.pgr_rom = Put(@, PgrIndex(s.memory, address), value)]
    ELSE Panic(s, "Could not map memory write")

\* memory.rs 277-282
pages_differ(first_address, second_address) ==
    HighPart(first_address) # HighPart(second_address)

(***************************************************************************)
(* ppu.rs 954-1084: scrolling, the shift registers and flip_byte           *)
(***************************************************************************)
\* bit n of x
Bit(x, n) == (x \div (2 ^ n)) % 2

\* a | b and a & b on unsigned integers
RECURSIVE BitOr(_, _)
BitOr(a, b) ==
    IF a = 0 THEN b
    ELSE IF b = 0 THEN a
    ELSE (IF a % 2 = 1 \/ b % 2 = 1 THEN 1 ELSE 0) + 2 * BitOr(a \div 2, b \div 2)

RECURSIVE BitAnd(_, _)
BitAnd(a, b) ==
    IF a = 0 \/ b = 0 THEN 0
    ELSE (IF a % 2 = 1 /\ b % 2 = 1 THEN 1 ELSE 0) + 2 * BitAnd(a \div 2, b \div 2)

\* a ^ b on unsigned integers
RECURSIVE BitXor(_, _)
BitXor(a, b) ==
    IF a = 0 THEN b
    ELSE IF b = 0 THEN a
    ELSE (IF a % 2 # b % 2 THEN 1 ELSE 0) + 2 * BitXor(a \div 2, b \div 2)

\* `n as u16` for an i16 n
AsU16(n) == IF n < 0 THEN n + 65536 ELSE n

\* ppu.rs 102-106
get_sprite_size(control) == IF Contains(control, SPRITE_SIZE) THEN 16 ELSE 8

\* a faulty coarse-x increment that does not look at PPUMASK
increment_scroll_x_always(p) ==
    LET loopy == LoopyFrom(p.ppu_address)
    IN  [p EXCEPT !.ppu_address =
            LoopyBits(IF loopy.coarse_x = 31
                      THEN [loopy EXCEPT !.coarse_x = 0, !.name_table_x = 255 - @]
                      ELSE [loopy EXCEPT !.coarse_x = @ + 1])]

\* ppu.rs 954-975; `!x` on the u8 that holds a one-bit field is 255 - x
increment_scroll_x(p) ==
    IF ~rendering_enabled(p.ppu_mask) THEN p
    ELSE LET loopy == LoopyFrom(p.ppu_address)
         IN  [p EXCEPT !.ppu_address =
                 LoopyBits(IF loopy.coarse_x = 31
                           THEN [loopy EXCEPT !.coarse_x = 0, !.name_table_x = 255 - @]
                           ELSE [loopy EXCEPT !.coarse_x = @ + 1])]

\* ppu.rs 977-1011
increment_scroll_y(p) ==
    IF ~rendering_enabled(p.ppu_mask) THEN p
    ELSE LET loopy == LoopyFrom(p.ppu_address)
         IN  [p EXCEPT !.ppu_address =
                 LoopyBits(IF loopy.fine_y < 7 THEN [loopy EXCEPT !.fine_y = @ + 1]
                           ELSE IF loopy.coarse_y = 29
                           THEN [loopy EXCEPT !.fine_y = 0, !.coarse_y = 0,
                                              !.name_table_y = 255 - @]
                           ELSE IF loopy.coarse_y = 31
                           THEN [loopy EXCEPT !.fine_y = 0, !.coarse_y = 0]
                           ELSE [loopy EXCEPT !.fine_y = 0, !.coarse_y = @ + 1])]

\* ppu.rs 1013-1024
update_address_x(p) ==
    IF ~rendering_enabled(p.ppu_mask) THEN p
    ELSE LET loopy_table_ram_address == LoopyFrom(p.table_ram_address)
         IN  [p EXCEPT !.ppu_address =
                 LoopyBits([LoopyFrom(p.ppu_address) EXCEPT
                     !.name_table_x = loopy_table_ram_address.name_table_x,
                     !.coarse_x = loopy_table_ram_address.coarse_x])]

\* ppu.rs 1026-1038
update_address_y(p) ==
    IF ~rendering_enabled(p.ppu_mask) THEN p
    ELSE LET loopy_table_ram_address == LoopyFrom(p.table_ram_address)
         IN  [p EXCEPT !.ppu_address =
                 LoopyBits([LoopyFrom(p.ppu_address) EXCEPT
                     !.fine_y = loopy_table_ram_address.fine_y,
                     !.name_table_y = loopy_table_ram_address.name_table_y,
                     !.coarse_y = loopy_table_ram_address.coarse_y])]

\* ppu.rs 1041-1048
prime_background_shifters(p) ==
    [p EXCEPT
        !.shifter_pattern_low = HighPart(@) + p.next_background_tile_lsb,
        !.shifter_pattern_high = HighPart(@) + p.next_background_tile_msb,
        !.shifter_attribute_low =
            HighPart(@) + (IF Bit(p.next_background_tile_attribute, 0) = 1 THEN \hff ELSE 0),
        !.shifter_attribute_high =
            HighPart(@) + (IF Bit(p.next_background_tile_attribute, 1) = 1 THEN \hff ELSE 0)]

\* ppu.rs 1053-1059
shift_background(p) ==
    IF Contains(p.ppu_mask, SHOW_BACKGROUND)
    THEN [p EXCEPT !.shifter_pattern_low = Wrap16(@ * 2),
                   !.shifter_pattern_high = Wrap16(@ * 2),
                   !.shifter_attribute_low = Wrap16(@ * 2),
                   !.shifter_attribute_high = Wrap16(@ * 2)]
    ELSE p

\* ppu.rs 1061-1073: a sprite still to the right moves one dot closer, a
\* sprite that has been reached shifts its pattern
shift_sprites(p) ==
    IF Contains(p.ppu_mask, SHOW_SPRITES) /\ p.cycles >= 1 /\ p.cycles < 258
    THEN [p EXCEPT
            !.current_scanline_sprites =
                [k \in 0..7 |->
                    IF k < p.current_scanline_sprites_count
                       /\ p.current_scanline_sprites[k].x > 0
                    THEN [p.current_scanline_sprites[k] EXCEPT !.x = @ - 1]
                    ELSE p.current_scanline_sprites[k]],
            !.sprite_shifter_pattern_low =
                [k \in 0..7 |->
                    IF k < p.current_scanline_sprites_count
                       /\ p.current_scanline_sprites[k].x = 0
                    THEN Wrap8(p.sprite_shifter_pattern_low[k] * 2)
                    ELSE p.sprite_shifter_pattern_low[k]],
            !.sprite_shifter_pattern_high =
                [k \in 0..7 |->
                    IF k < p.current_scanline_sprites_count
                       /\ p.current_scanline_sprites[k].x = 0
                    THEN Wrap8(p.sprite_shifter_pattern_high[k] * 2)
                    ELSE p.sprite_shifter_pattern_high[k]]]
    ELSE p

\* ppu.rs 1051-1074
advance_background_shifters(p) == shift_sprites(shift_background(p))

\* one line of flip_byte: (value & mask) >> n | (value & !mask) << n
SwapBits(value, mask, n) ==
    (BitAnd(value, mask) \div (2 ^ n)) + Wrap8(BitAnd(value, 255 - mask) * (2 ^ n))

\* ppu.rs 1078-1084
flip_byte(value) == SwapBits(SwapBits(SwapBits(value, \hf0, 4), \hcc, 2), \haa, 1)

(***************************************************************************)
(* ppu.rs 589-666: process_background_tiles                                *)
(***************************************************************************)
\* read_byte_from_ppu for a PPU p beside the memory m
PpuRead(p, m, address) == read_byte_from_ppu([ppu |-> p, memory |-> m], address)

\* ppu.rs 602, 659: 0x2000 | (ppu_address & 0x0fff)
TileIdAddress(p) == \h2000 + (p.ppu_address % 4096)

\* ppu.rs 608-611: the fields lie on bits that 0x23c0 leaves clear
AttributeAddress(loopy) ==
    \h23c0 + loopy.name_table_y * 2048 + loopy.name_table_x * 1024
           + (loopy.coarse_y \div 4) * 8 + (loopy.coarse_x \div 4)

\* ppu.rs 613-615
AttributeBits(byte, loopy) ==
    LET down  == IF Bit(loopy.coarse_y, 1) = 1 THEN byte \div 16 ELSE byte
        along == IF Bit(loopy.coarse_x, 1) = 1 THEN down \div 4 ELSE down
    IN  along % 4

\* ppu.rs 620-624, 629-633
PatternAddress(p, loopy, plane) ==
      (IF Contains(p.ppu_control, BACKROUND_PATTERN_ADDR) THEN 4096 ELSE 0)
    + p.next_background_tile_id * 16 + loopy.fine_y + plane

\* ppu.rs 595-642: the step of the eight-dot fetch that dot `cycles` performs
background_fetch(p, m) ==
    LET loopy == LoopyFrom(p.ppu_address)
        step  == (p.cycles - 1) % 8
    IN  IF step = 0
        THEN [prime_background_shifters(p) EXCEPT
                 !.next_background_tile_id = PpuRead(p, m, TileIdAddress(p))]
        ELSE IF step = 2
        THEN [p EXCEPT !.next_background_tile_attribute =
                 AttributeBits(PpuRead(p, m, AttributeAddress(loopy)), loopy)]
        ELSE IF step = 4
        THEN [p EXCEPT !.next_background_tile_lsb =
                 PpuRead(p, m, PatternAddress(p, loopy, 0))]
        ELSE IF step = 6
        THEN [p EXCEPT !.next_background_tile_msb =
                 PpuRead(p, m, PatternAddress(p, loopy, 8))]
        ELSE IF step = 7 THEN increment_scroll_x(p)
        ELSE p

\* ppu.rs 592-643
fetch_stage(p, m) ==
    IF (p.cycles >= 2 /\ p.cycles < 258) \/ (p.cycles >= 321 /\ p.cycles < 338)
    THEN background_fetch(advance_background_shifters(p), m)
    ELSE p

\* ppu.rs 646-648
scroll_y_stage(p) == IF p.cycles = 256 THEN increment_scroll_y(p) ELSE p

\* ppu.rs 651-655
reset_x_stage(p) ==
    IF p.cycles = 257 THEN update_address_x(prime_background_shifters(p)) ELSE p

\* ppu.rs 658-660
line_end_stage(p, m) ==
    IF p.cycles = 338 \/ p.cycles = 340
    THEN [p EXCEPT !.next_background_tile_id = PpuRead(p, m, TileIdAddress(p))]
    ELSE p

\* ppu.rs 663-665
restart_y_stage(p) ==
    IF p.scanline = -1 /\ p.cycles >= 280 /\ p.cycles < 305
    THEN update_address_y(p)
    ELSE p

process_background_tiles(p, m) ==
    restart_y_stage(line_end_stage(reset_x_stage(scroll_y_stage(fetch_stage(p, m))), m))

(***************************************************************************)
(* ppu.rs 668-829: process_sprites.  `probe` records what a tick found; it *)
(* is never read by the machine.                                           *)
(***************************************************************************)
\* ppu.rs 692-698
ObjectAttributeFrom(p, index) ==
    [ y          |-> OamAt(p, index * 4),
      id         |-> OamAt(p, index * 4 + 1),
      attributes |-> OamAt(p, index * 4 + 2),
      x          |-> OamAt(p, index * 4 + 3) ]

\* ppu.rs 680-681
OffScreenSprite == [y |-> 255, id |-> 0, attributes |-> 0, x |-> 0]

\* ppu.rs 701-702
Intersects(p, index) ==
    LET y_difference == p.scanline - OamAt(p, index * 4)
    IN  y_difference >= 0 /\ y_difference < get_sprite_size(p.ppu_control)

\* the OAM entries the scanline intersects
InRange(p) == {index \in 0..63 : Intersects(p, index)}

\* the n lowest members of a set of entries, in rising order
RECURSIVE LowestOf(_, _)
LowestOf(entries, n) ==
    IF n = 0 \/ entries = {} THEN <<>>
    ELSE LET lowest == CHOOSE e \in entries : \A other \in entries : e <= other
         IN  <<lowest>> \o LowestOf(entries \ {lowest}, n - 1)

\* ppu.rs 689-716: the loop over the 64 entries of OAM takes the first eight
\* in range (`taken`, the entries copied to current_scanline_sprites) and
\* sets SPRITE_OVERFLOW at every further one (`overflowed`)
scan_oam(p) ==
    [ taken      |-> LowestOf(InRange(p), 8),
      overflowed |-> Cardinality(InRange(p)) > 8 ]

\* ppu.rs 678-719, given what the loop found; the last statement sets
\* SPRITE_OVERFLOW to `current_scanline_sprites_count > 8`
store_evaluation(s, found) ==
    [s EXCEPT
        !.ppu.current_scanline_sprites =
            [k \in 0..7 |-> IF k < Len(found.taken)
                            THEN ObjectAttributeFrom(s.ppu, found.taken[k + 1])
                            ELSE OffScreenSprite],
        !.ppu.current_scanline_sprites_count = Len(found.taken),
        !.ppu.sprite_zero_in_scanline = \E k \in 1..Len(found.taken) : found.taken[k] = 0,
        !.ppu.ppu_status =
            SetFlag(IF found.overflowed THEN SetFlag(@, SPRITE_OVERFLOW, TRUE) ELSE @,
                    SPRITE_OVERFLOW, Len(found.taken) > 8),
        !.probe.evaluated = TRUE,
        !.probe.taken = found.taken,
        !.probe.ninth = found.overflowed]

\* ppu.rs 674-720
evaluate_sprites(s) ==
    IF s.ppu.cycles = 257 /\ s.ppu.scanline >= 0
    THEN store_evaluation(s, scan_oam(s.ppu))
    ELSE s

\* ppu.rs 738-805: sprite_pattern_address_low
SpritePatternAddress(p, sprite) ==
    LET row     == p.scanline - sprite.y
        flipped == Bit(sprite.attributes, 7) = 1
    IN  IF get_sprite_size(p.ppu_control) = 8
        THEN BitOr(BitOr((IF Contains(p.ppu_control, SPRITE_PATTERN_ADDR)
                          THEN 4096 ELSE 0),
                         sprite.id * 16),
                   AsU16(IF flipped THEN 7 - row ELSE row))
        ELSE BitOr(BitOr((sprite.id % 2) * 4096,
                         (sprite.id - (sprite.id % 2) + (IF row < 8 THEN 0 ELSE 1)) * 16),
                   (IF flipped THEN 7 - row ELSE row) % 8)

\* ppu.rs 808-822: the pattern byte of slot k in the plane at offset 0 or 8
SpritePatternBits(s, k, plane) ==
    LET sprite == s.ppu.current_scanline_sprites[k]
        bits   == read_byte_from_ppu(s, Wrap16(SpritePatternAddress(s.ppu, sprite) + plane))
    IN  IF Bit(sprite.attributes, 6) = 1 THEN flip_byte(bits) ELSE bits

\* ppu.rs 808: `sprite_pattern_address_low + 8` on a u16
HighAddressOverflows(p) ==
    \E k \in 0..7 :
        /\ k < p.current_scanline_sprites_count
        /\ SpritePatternAddress(p, p.current_scanline_sprites[k]) + 8 > 65535

\* ppu.rs 723-828
load_sprite_shifters(s) ==
    IF s.ppu.cycles # 340 THEN s
    ELSE IF s.checks /\ HighAddressOverflows(s.ppu)
    THEN Panic(s, "attempt to add with overflow")
    ELSE [s EXCEPT
            !.ppu.sprite_shifter_pattern_low =
                [k \in 0..7 |-> IF k < s.ppu.current_scanline_sprites_count
                                THEN SpritePatternBits(s, k, 0)
                                ELSE s.ppu.sprite_shifter_pattern_low[k]],
            !.ppu.sprite_shifter_pattern_high =
                [k \in 0..7 |-> IF k < s.ppu.current_scanline_sprites_count
                                THEN SpritePatternBits(s, k, 8)
                                ELSE s.ppu.sprite_shifter_pattern_high[k]]]

process_sprites(s) == load_sprite_shifters(evaluate_sprites(s))

(***************************************************************************)
(* ppu.rs 831-940: the pixel of the current dot.  The colour written to    *)
(* `output` is left out: nothing reads it back.                            *)
(***************************************************************************)
\* ppu.rs 831-850: the pixel under the mask 0x8000 >> fine_x
get_background_tile_to_draw(p) ==
    IF Contains(p.ppu_mask, SHOW_BACKGROUND)
    THEN 2 * Bit(p.shifter_pattern_high, 15 - p.fine_x)
           + Bit(p.shifter_pattern_low, 15 - p.fine_x)
    ELSE 0

\* ppu.rs 872-874
SpritePixel(p, k) ==
    2 * Bit(p.sprite_shifter_pattern_high[k], 7) + Bit(p.sprite_shifter_pattern_low[k], 7)

\* ppu.rs 864-888: the slot the loop breaks at, or -1
OpaqueSlots(p) ==
    {k \in 0..7 : /\ k < p.current_scanline_sprites_count
                  /\ p.current_scanline_sprites[k].x = 0
                  /\ SpritePixel(p, k) # 0}

FirstOpaqueSlot(p) ==
    IF ~Contains(p.ppu_mask, SHOW_SPRITES) \/ OpaqueSlots(p) = {} THEN -1
    ELSE CHOOSE k \in OpaqueSlots(p) : \A other \in OpaqueSlots(p) : k <= other

\* ppu.rs 852-892: the pixel is that of the slot the loop breaks at, and 0
\* if it runs to its end
get_sprite_to_draw(slot, p) ==
    [ p     |-> IF slot = 0 THEN [p EXCEPT !.sprite_zero_being_rendered = TRUE] ELSE p,
      slot  |-> slot,
      pixel |-> IF slot >= 0 THEN SpritePixel(p, slot) ELSE 0 ]

\* ppu.rs 927-934
HitWindow(p) ==
    IF ~Contains(p.ppu_mask, SHOW_BACKGROUND_IN_LEFTMOST_PIXELS)
       \/ ~Contains(p.ppu_mask, SHOW_SPRITES_IN_LEFTMOST_PIXELS)
    THEN p.cycles >= 9 /\ p.cycles < 258
    ELSE p.cycles >= 1 /\ p.cycles < 258

\* ppu.rs 894-940
get_final_pixel(p, tile_pixel, sprite_pixel) ==
    IF /\ tile_pixel > 0 /\ sprite_pixel > 0
       /\ p.sprite_zero_in_scanline /\ p.sprite_zero_being_rendered
       /\ Contains(p.ppu_mask, SHOW_BACKGROUND) /\ Contains(p.ppu_mask, SHOW_SPRITES)
       /\ HitWindow(p)
    THEN [p EXCEPT !.ppu_status = SetFlag(@, SPRITE_ZERO_HIT, TRUE)]
    ELSE p

\* ppu.rs 558, given the results of ppu.rs 554-555
combine_pixels(s, tile_pixel, sprite) ==
    [s EXCEPT !.ppu = get_final_pixel(sprite.p, tile_pixel, sprite.pixel),
              !.probe.dot = s.ppu.cycles,
              !.probe.tile_pixel = tile_pixel,
              !.probe.sprite_pixel = sprite.pixel,
              !.probe.slot = sprite.slot]

\* ppu.rs 554-558
draw_pixel(s) ==
    IF Halted(s) THEN s
    ELSE combine_pixels(s, get_background_tile_to_draw(s.ppu),
                        get_sprite_to_draw(FirstOpaqueSlot(s.ppu), s.ppu))

(***************************************************************************)
(* ppu.rs 508-587: one PPU tick                                            *)
(***************************************************************************)
\* ppu.rs 513-514
skip_idle_dot(p) ==
    IF p.scanline = 0 /\ p.cycles = 0 THEN [p EXCEPT !.cycles = 1] ELSE p

\* a faulty start of frame that clears the flags one dot late
clear_frame_flags_late(p) ==
    IF p.scanline = -1 /\ p.cycles = 2
    THEN [p EXCEPT !.ppu_status =
             SetFlag(SetFlag(SetFlag(@, V_BLANK, FALSE), SPRITE_OVERFLOW, FALSE),
                     SPRITE_ZERO_HIT, FALSE),
                   !.sprite_shifter_pattern_low = [k \in 0..7 |-> 0],
                   !.sprite_shifter_pattern_high = [k \in 0..7 |-> 0]]
    ELSE p

\* ppu.rs 519-530
clear_frame_flags(p) ==
    IF p.scanline = -1 /\ p.cycles = 1
    THEN [p EXCEPT !.ppu_status =
             SetFlag(SetFlag(SetFlag(@, V_BLANK, FALSE), SPRITE_OVERFLOW, FALSE),
                     SPRITE_ZERO_HIT, FALSE),
                   !.sprite_shifter_pattern_low = [k \in 0..7 |-> 0],
                   !.sprite_shifter_pattern_high = [k \in 0..7 |-> 0]]
    ELSE p

\* ppu.rs 511-535
visible_lines(s) ==
    IF s.ppu.scanline >= -1 /\ s.ppu.scanline < 240
    THEN process_sprites(
             [s EXCEPT !.ppu = process_background_tiles(
                                   clear_frame_flags(skip_idle_dot(@)), s.memory)])
    ELSE s

\* a faulty start of VBLANK that requests the NMI whatever PPUCTRL says
start_vblank_always_requesting(p) ==
    IF p.scanline = 241 /\ p.cycles = 1
    THEN [p EXCEPT !.ppu_status = SetFlag(@, V_BLANK, TRUE),
                   !.due_non_maskable_interrupt = TRUE]
    ELSE p

\* ppu.rs 538-551
start_vblank(p) ==
    IF p.scanline >= 241 /\ p.scanline < 261 /\ p.scanline = 241 /\ p.cycles = 1
    THEN [p EXCEPT !.ppu_status = SetFlag(@, V_BLANK, TRUE),
                   !.due_non_maskable_interrupt =
                       IF Contains(p.ppu_control, GENERATE_NMI) THEN TRUE ELSE @]
    ELSE p

\* a faulty advance that goes back to the top one scanline late
advance_dot_wrapping_late(p) ==
    IF p.cycles + 1 >= 341
    THEN [p EXCEPT !.cycles = 0,
                   !.scanline = IF p.scanline + 1 >= 262 THEN -1 ELSE p.scanline + 1]
    ELSE [p EXCEPT !.cycles = p.cycles + 1]

\* ppu.rs 574-586
advance_dot(p) ==
    IF p.cycles + 1 >= 341
    THEN [p EXCEPT !.cycles = 0,
                   !.scanline = IF p.scanline + 1 >= 261 THEN -1 ELSE p.scanline + 1]
    ELSE [p EXCEPT !.cycles = p.cycles + 1]

\* ppu.rs 538-586, given the machine after ppu.rs 511-535
finish_tick(s) ==
    IF Halted(s) THEN s
    ELSE [draw_pixel([s EXCEPT !.ppu = start_vblank(@)]) EXCEPT !.ppu = advance_dot(@)]

ppu_execute(s) == finish_tick(visible_lines(s))

(***************************************************************************)
(* opcodes.rs 162-435: the rows of the decode table that the cartridges    *)
(* and the test programs use.  Any other opcode stops the model.           *)
(***************************************************************************)
Instruction(operation, addressing_mode, cycles) ==
    [operation |-> operation, addressing_mode |-> addressing_mode, cycles |-> cycles]

INSTRUCTIONS(opcode) ==
    CASE opcode = \h00 -> Instruction("BRK", "Immediate", 7)
      [] opcode = \h06 -> Instruction("ASL", "ZeroPage", 5)
      [] opcode = \h08 -> Instruction("PHP", "Implied", 3)
      [] opcode = \h0A -> Instruction("ASL", "Accumulator", 2)
      [] opcode = \h0E -> Instruction("ASL", "Absolute", 6)
      [] opcode = \h1C -> Instruction("IGN", "AbsoluteX", 4)
      [] opcode = \h1E -> Instruction("ASL", "AbsoluteX", 7)
      [] opcode = \h28 -> Instruction("PLP", "Implied", 4)
      [] opcode = \h40 -> Instruction("RTI", "Implied", 6)
      [] opcode = \h46 -> Instruction("LSR", "ZeroPage", 5)
      [] opcode = \h48 -> Instruction("PHA", "Implied", 3)
      [] opcode = \h4A -> Instruction("LSR", "Accumulator", 2)
      [] opcode = \h4C -> Instruction("JMP", "Absolute", 3)
      [] opcode = \h4E -> Instruction("LSR", "Absolute", 6)
      [] opcode = \h68 -> Instruction("PLA", "Implied", 4)
      [] opcode = \h69 -> Instruction("ADC", "Immediate", 2)
      [] opcode = \h6C -> Instruction("JMP", "Indirect", 5)
      [] opcode = \h7D -> Instruction("ADC", "AbsoluteX", 4)
      [] opcode = \h81 -> Instruction("STA", "IndirectX", 6)
      [] opcode = \h84 -> Instruction("STY", "ZeroPage", 3)
      [] opcode = \h85 -> Instruction("STA", "ZeroPage", 3)
      [] opcode = \h86 -> Instruction("STX", "ZeroPage", 3)
      [] opcode = \h88 -> Instruction("DEY", "Implied", 2)
      [] opcode = \h8C -> Instruction("STY", "Absolute", 4)
      [] opcode = \h8D -> Instruction("STA", "Absolute", 4)
      [] opcode = \h8E -> Instruction("STX", "Absolute", 4)
      [] opcode = \h91 -> Instruction("STA", "IndirectY", 6)
      [] opcode = \h94 -> Instruction("STY", "ZeroPageX", 4)
      [] opcode = \h95 -> Instruction("STA", "ZeroPageX", 4)
      [] opcode = \h96 -> Instruction("STX", "ZeroPageY", 4)
      [] opcode = \h99 -> Instruction("STA", "AbsoluteY", 5)
      [] opcode = \h9D -> Instruction("STA", "AbsoluteX", 5)
      [] opcode = \hA0 -> Instruction("LDY", "Immediate", 2)
      [] opcode = \hA2 -> Instruction("LDX", "Immediate", 2)
      [] opcode = \hA9 -> Instruction("LDA", "Immediate", 2)
      [] opcode = \hAD -> Instruction("LDA", "Absolute", 4)
      [] opcode = \hB1 -> Instruction("LDA", "IndirectY", 5)
      [] opcode = \hB9 -> Instruction("LDA", "AbsoluteY", 4)
      [] opcode = \hBD -> Instruction("LDA", "AbsoluteX", 4)
      [] opcode = \hBE -> Instruction("LDX", "AbsoluteY", 4)
      [] opcode = \hCA -> Instruction("DEX", "Implied", 2)
      [] opcode = \hD0 -> Instruction("BNE", "Relative", 2)
      [] opcode = \hDD -> Instruction("CMP", "AbsoluteX", 4)
      [] opcode = \hE9 -> Instruction("SBC", "Immediate", 2)
      [] opcode = \hEA -> Instruction("NOP", "Implied", 2)
      [] opcode = \hF0 -> Instruction("BEQ", "Relative", 2)
      [] OTHER -> Instruction("unmodelled", "Implied", 0)

\* a faulty list that has the stores fetch an argument too
operation_requires_fetched_argument_or_store(operation) ==
    operation \in {"ADC", "SBC", "AND", "EOR", "ORA", "ASL", "LSR", "ROL", "ROR",
                   "INC", "DEC", "LDA", "LDX", "LDY", "CMP", "CPX", "CPY", "BIT",
                   "LAX", "SAX", "DCP", "ISC", "RLA", "RRA", "SLO", "SRE", "SKB",
                   "IGN", "ALR", "ANC", "ARR", "AXS", "STA", "STX", "STY"}

\* opcodes.rs 119-158
operation_requires_fetched_argument(operation) ==
    operation \in {"ADC", "SBC", "AND", "EOR", "ORA", "ASL", "LSR", "ROL", "ROR",
                   "INC", "DEC", "LDA", "LDX", "LDY", "CMP", "CPX", "CPY", "BIT",
                   "LAX", "SAX", "DCP", "ISC", "RLA", "RRA", "SLO", "SRE", "SKB",
                   "IGN", "ALR", "ANC", "ARR", "AXS"}

(***************************************************************************)
(* cpu.rs: the interpreter                                                 *)
(***************************************************************************)
\* `self.pc += 1` on a u16
IncrementPc(s) ==
    IF s.cpu.pc + 1 > 65535 /\ s.checks THEN Panic(s, "attempt to add with overflow (pc)")
    ELSE [s EXCEPT !.cpu.pc = Wrap16(s.cpu.pc + 1)]

\* cpu.rs 97-98, given the byte read at cpu.rs 96
advance_past(data) == Ret(IncrementPc(data.s), data.value)

\* cpu.rs 93-99
read_byte_for_operand(s, debugger) ==
    advance_past(read_byte(s, s.cpu.pc, debugger))

\* cpu.rs 106: (high << 8) | low, the high byte read last
OperandWord(low, high) == Ret(high.s, high.value * 256 + low.value)

\* cpu.rs 105-106, given the low byte read at cpu.rs 104
read_word_high(low, debugger) ==
    OperandWord(low, read_byte_for_operand(low.s, debugger))

\* cpu.rs 101-107
read_word_for_operand(s, debugger) ==
    read_word_high(read_byte_for_operand(s, debugger), debugger)

Operand(s, data, additional_cycle) ==
    [s |-> s, data |-> data, additional_cycle |-> additional_cycle]

\* an operand that is the byte or word just read
OperandOf(r) == Operand(r.s, r.value, FALSE)

\* cpu.rs 165-170: the byte just read is an i8 offset from the pc after it
RelativeOperand(r) ==
    Operand(r.s,
            Wrap16(r.s.cpu.pc + (IF r.value >= 128 THEN r.value - 256 ELSE r.value) + 65536),
            FALSE)

\* cpu.rs 183-184: the high byte of the target, read last
IndirectTarget(lower_byte, high) == Operand(high.s, high.value * 256 + lower_byte.value, FALSE)

\* a faulty indirect fetch that always reads the high byte at pointer + 1
indirect_high_without_wrap(original_address, lower_byte, debugger) ==
    IndirectTarget(lower_byte,
        read_byte(lower_byte.s, Wrap16(original_address + 1), debugger))

\* cpu.rs 183-184, given the low byte read at cpu.rs 182: the high byte comes
\* from the start of the pointer's page when the pointer ends in 0xff
indirect_high(original_address, lower_byte, debugger) ==
    IndirectTarget(lower_byte,
        read_byte(lower_byte.s,
                  IF original_address % 256 = 255 THEN HighPart(original_address)
                  ELSE original_address + 1,
                  debugger))

\* cpu.rs 177-187, given the pointer read at cpu.rs 178
indirect(pointer, debugger) ==
    indirect_high(pointer.value, read_byte(pointer.s, pointer.value, debugger), debugger)

\* memory.rs 216-221: a word of the first page, the high byte read first at
\* the address after it, modulo 256
read_word_from_first_page(s, address, debugger) ==
    read_word_low(read_byte(s, Wrap8(address + 1), debugger), address, debugger)

\* cpu.rs 140-147, given the base address read at cpu.rs 143
absolute_indexed(base_address, register) ==
    Operand(base_address.s, Wrap16(base_address.value + register),
            pages_differ(base_address.value, Wrap16(base_address.value + register)))

\* cpu.rs 156-160, given the byte read at cpu.rs 158
zero_page_indexed(address, register) ==
    Operand(address.s, Wrap8(address.value + register), FALSE)

\* cpu.rs 189-195, given the byte read at cpu.rs 192
indirect_x(address, debugger) ==
    OperandOf(read_word_from_first_page(address.s, Wrap8(address.value + address.s.cpu.x),
                                        debugger))

\* cpu.rs 203-206, given the word read at cpu.rs 201
indirect_y_target(value) ==
    Operand(value.s, Wrap16(value.value + value.s.cpu.y),
            pages_differ(value.value, Wrap16(value.value + value.s.cpu.y)))

\* cpu.rs 197-207, given the byte read at cpu.rs 200
indirect_y(address, debugger) ==
    indirect_y_target(read_word_from_first_page(address.s, address.value, debugger))

\* cpu.rs 121-208
fetch_operand(s, addressing_mode, debugger) ==
    IF addressing_mode = "Implied" THEN Operand(s, 0, FALSE)
    ELSE IF addressing_mode = "Accumulator" THEN Operand(s, s.cpu.a, FALSE)
    ELSE IF addressing_mode = "Immediate" THEN OperandOf(read_byte_for_operand(s, debugger))
    ELSE IF addressing_mode = "Absolute" THEN OperandOf(read_word_for_operand(s, debugger))
    ELSE IF addressing_mode = "AbsoluteX"
    THEN absolute_indexed(read_word_for_operand(s, debugger), s.cpu.x)
    ELSE IF addressing_mode = "AbsoluteY"
    THEN absolute_indexed(read_word_for_operand(s, debugger), s.cpu.y)
    ELSE IF addressing_mode = "ZeroPage" THEN OperandOf(read_byte_for_operand(s, debugger))
    ELSE IF addressing_mode = "ZeroPageX"
    THEN zero_page_indexed(read_byte_for_operand(s, debugger), s.cpu.x)
    ELSE IF addressing_mode = "ZeroPageY"
    THEN zero_page_indexed(read_byte_for_operand(s, debugger), s.cpu.y)
    ELSE IF addressing_mode = "Indirect"
    THEN indirect(read_word_for_operand(s, debugger), debugger)
    ELSE IF addressing_mode = "IndirectX"
    THEN indirect_x(read_byte_for_operand(s, debugger), debugger)
    ELSE IF addressing_mode = "IndirectY"
    THEN indirect_y(read_byte_for_operand(s, debugger), debugger)
    ELSE RelativeOperand(read_byte_for_operand(s, debugger))

\* cpu.rs 210-221
fetch_args(s, addressing_mode, operand_data) ==
    IF addressing_mode = "Implied" THEN Ret(s, 0)
    ELSE IF addressing_mode \in {"Accumulator", "Immediate"} THEN Ret(s, operand_data % 256)
    ELSE read_byte(s, operand_data, FALSE)

\* cpu.rs 660-673
set_zero_flag(flags, value) == SetFlag(flags, ZERO, value = 0)
set_negative_flag(flags, value) == SetFlag(flags, NEGATIVE, value >= 128)

\* cpu.rs 682: `self.sp -= 1` on a u8
DecrementSp(s) ==
    IF Halted(s) THEN s
    ELSE IF s.cpu.sp = 0 /\ s.checks THEN Panic(s, "attempt to subtract with overflow (sp)")
    ELSE [s EXCEPT !.cpu.sp = Wrap8(s.cpu.sp + 255)]

\* cpu.rs 678-683
push(s, value) ==
    IF Halted(s) THEN s ELSE DecrementSp(write_byte(s, \h100 + s.cpu.sp, value))

\* cpu.rs 685-689
pop(s) ==
    IF Halted(s) THEN Ret(s, 0)
    ELSE IF s.cpu.sp = 255 /\ s.checks THEN Ret(Panic(s, "attempt to add with overflow (sp)"), 0)
    ELSE read_byte([s EXCEPT !.cpu.sp = Wrap8(s.cpu.sp + 1)],
                   \h100 + Wrap8(s.cpu.sp + 1), FALSE)

\* cpu.rs 623-630
compare(s, register, argument) ==
    Ret([s EXCEPT !.cpu.flags =
            set_negative_flag(
                set_zero_flag(SetFlag(@, CARRY, register >= argument),
                              Wrap8(register + 256 - argument)),
                Wrap8(register + 256 - argument))],
        TRUE)

\* a faulty branch that charges one extra cycle wherever the target is
branch_charging_one(s, location, condition) ==
    IF condition
    THEN [s EXCEPT !.cpu.cycles = @ + 1, !.cpu.pc = location]
    ELSE s

\* cpu.rs 632-642
branch(s, location, condition) ==
    IF condition
    THEN [s EXCEPT !.cpu.cycles = @ + (IF pages_differ(s.cpu.pc, location) THEN 2 ELSE 1),
                   !.cpu.pc = location]
    ELSE s

\* cpu.rs 407-408: RTI, given the status byte popped at cpu.rs 407
rti_pc_high(status, low, high) ==
    Ret([high.s EXCEPT !.cpu.flags = status.value,
                       !.cpu.pc = low.value + high.value * 256],
        FALSE)

rti_pc_low(status, low) == rti_pc_high(status, low, pop(low.s))

rti_status(status) == rti_pc_low(status, pop(status.s))

\* cpu.rs 243-258
adc(s, argument) ==
    LET a        == s.cpu.a
        value    == a + argument + BitAnd(s.cpu.flags, CARRY)
        overflow == BitAnd(BitAnd(65535 - BitXor(a, argument), BitXor(a, value)), \h80) # 0
    IN  Ret([s EXCEPT !.cpu.flags =
                          set_negative_flag(
                              SetFlag(set_zero_flag(SetFlag(@, CARRY, value > 255), value % 256),
                                      OVERFLOW, overflow),
                              value % 256),
                      !.cpu.a = value % 256],
            TRUE)

\* a faulty SBC that adds the argument itself, not its complement
sbc_without_complement(s, argument) ==
    LET a        == s.cpu.a
        value    == argument
        temp     == a + value + BitAnd(s.cpu.flags, CARRY)
        overflow == BitAnd(BitAnd(BitXor(temp, a), BitXor(temp, value)), \h80) # 0
    IN  Ret([s EXCEPT !.cpu.flags =
                          set_negative_flag(
                              SetFlag(set_zero_flag(SetFlag(@, CARRY, BitAnd(temp, \hff00) # 0),
                                                    temp % 256),
                                      OVERFLOW, overflow),
                              temp % 256),
                      !.cpu.a = temp % 256],
            TRUE)

\* cpu.rs 260-273
sbc(s, argument) ==
    LET a        == s.cpu.a
        value    == BitXor(argument, \h00ff)
        temp     == a + value + BitAnd(s.cpu.flags, CARRY)
        overflow == BitAnd(BitAnd(BitXor(temp, a), BitXor(temp, value)), \h80) # 0
    IN  Ret([s EXCEPT !.cpu.flags =
                          set_negative_flag(
                              SetFlag(set_zero_flag(SetFlag(@, CARRY, BitAnd(temp, \hff00) # 0),
                                                    temp % 256),
                                      OVERFLOW, overflow),
                              temp % 256),
                      !.cpu.a = temp % 256],
            TRUE)

\* cpu.rs 290-291 and 304-305: the result goes to the accumulator or to memory
write_back(s, addressing_mode, address, result) ==
    IF addressing_mode = "Accumulator" THEN [s EXCEPT !.cpu.a = result]
    ELSE write_byte(s, address, result)

\* a faulty ASL that leaves the carry flag as it was
asl_keeping_carry(s, addressing_mode, operand_data, argument) ==
    LET result == (argument * 2) % 256
    IN  Ret(write_back([s EXCEPT !.cpu.flags =
                            set_negative_flag(set_zero_flag(@, result), result)],
                       addressing_mode, operand_data, result),
            FALSE)

\* cpu.rs 282-294
asl(s, addressing_mode, operand_data, argument) ==
    LET result == (argument * 2) % 256
    IN  Ret(write_back([s EXCEPT !.cpu.flags =
                            SetFlag(set_negative_flag(set_zero_flag(@, result), result),
                                    CARRY, BitAnd(argument, \h80) # 0)],
                       addressing_mode, operand_data, result),
            FALSE)

\* cpu.rs 296-308
lsr(s, addressing_mode, operand_data, argument) ==
    LET result == argument \div 2
    IN  Ret(write_back([s EXCEPT !.cpu.flags =
                            SetFlag(SetFlag(set_zero_flag(@, result), NEGATIVE, FALSE),
                                    CARRY, BitAnd(argument, 1) # 0)],
                       addressing_mode, operand_data, result),
            FALSE)

\* a faulty PHP that pushes the flags as they are
php_pushing_live_flags(s) == push(s, s.cpu.flags)

\* cpu.rs 437-441
php(s) == push(s, BitOr(BitOr(s.cpu.flags, B_FLAG), U_FLAG))

\* cpu.rs 444-446, given the byte popped at cpu.rs 444
pla(popped) ==
    IF Halted(popped.s) THEN popped.s ELSE
    [popped.s EXCEPT !.cpu.a = popped.value,
                     !.cpu.flags = set_negative_flag(set_zero_flag(@, popped.value),
                                                     popped.value)]

\* cpu.rs 450, given the byte popped
plp(popped) ==
    IF Halted(popped.s) THEN popped.s ELSE [popped.s EXCEPT !.cpu.flags = popped.value]

\* cpu.rs 239-614: the match on the operation; the value is has_extra_cycles
operate(s, operation, addressing_mode, operand_data, argument) ==
    CASE operation = "ADC" -> adc(s, argument)
      [] operation = "SBC" -> sbc(s, argument)
      [] operation = "ASL" -> asl(s, addressing_mode, operand_data, argument)
      [] operation = "LSR" -> lsr(s, addressing_mode, operand_data, argument)
      [] operation = "PHA" -> Ret(push(s, s.cpu.a), FALSE)
      [] operation = "PHP" -> Ret(php(s), FALSE)
      [] operation = "PLA" -> Ret(pla(pop(s)), FALSE)
      [] operation = "PLP" -> Ret(plp(pop(s)), FALSE)
      [] operation = "BRK" -> Ret(Panic(s, "explicit panic"), FALSE)
      [] operation = "LDA" ->
            Ret([s EXCEPT !.cpu.a = argument,
                          !.cpu.flags = set_zero_flag(set_negative_flag(@, argument), argument)],
                TRUE)
      [] operation = "LDX" ->
            Ret([s EXCEPT !.cpu.x = argument,
                          !.cpu.flags = set_zero_flag(set_negative_flag(@, argument), argument)],
                TRUE)
      [] operation = "LDY" ->
            Ret([s EXCEPT !.cpu.y = argument,
                          !.cpu.flags = set_zero_flag(set_negative_flag(@, argument), argument)],
                TRUE)
      [] operation = "DEX" ->
            LET result == Wrap8(s.cpu.x + 255)
            IN  Ret([s EXCEPT !.cpu.x = result,
                              !.cpu.flags = set_negative_flag(set_zero_flag(@, result), result)],
                    FALSE)
      [] operation = "DEY" ->
            LET result == Wrap8(s.cpu.y + 255)
            IN  Ret([s EXCEPT !.cpu.y = result,
                              !.cpu.flags = set_negative_flag(set_zero_flag(@, result), result)],
                    FALSE)
      [] operation = "STA" -> Ret(write_byte(s, operand_data, s.cpu.a), FALSE)
      [] operation = "STX" -> Ret(write_byte(s, operand_data, s.cpu.x), FALSE)
      [] operation = "STY" -> Ret(write_byte(s, operand_data, s.cpu.y), FALSE)
      [] operation = "CMP" -> compare(s, s.cpu.a, argument)
      [] operation = "IGN" -> Ret(s, TRUE)
      [] operation = "BEQ" ->
            Ret(branch(s, operand_data, Contains(s.cpu.flags, ZERO)), FALSE)
      [] operation = "JMP" -> Ret([s EXCEPT !.cpu.pc = operand_data], FALSE)
      [] operation = "RTI" -> rti_status(pop(s))
      [] operation = "BNE" ->
            Ret(branch(s, operand_data, ~Contains(s.cpu.flags, ZERO)), FALSE)
      [] operation = "NOP" -> Ret(s, FALSE)
      [] OTHER -> Ret(Panic(s, "Could not decode opcode"), FALSE)

\* cpu.rs 612-618: the cycles of the instruction are added
add_cycles(instruction, operand, done) ==
    IF Halted(done.s) THEN done.s
    ELSE [done.s EXCEPT !.cpu.cycles =
             @ + (IF operand.additional_cycle /\ done.value THEN 1 ELSE 0)
               + instruction.cycles]

\* cpu.rs 239: the operation runs on the argument
run_operation(instruction, operand, argument) ==
    IF Halted(argument.s) THEN argument.s
    ELSE add_cycles(instruction, operand,
                    operate(argument.s, instruction.operation, instruction.addressing_mode,
                            operand.data, argument.value))

\* cpu.rs 236: the argument is read only if the operation takes one
with_operand(instruction, operand) ==
    IF Halted(operand.s) THEN operand.s
    ELSE run_operation(instruction, operand,
             IF operation_requires_fetched_argument(instruction.operation)
             THEN fetch_args(operand.s, instruction.addressing_mode, operand.data)
             ELSE Ret(operand.s, 0))

\* cpu.rs 233: the operand is fetched with the pc past the opcode
decoded(instruction, s) ==
    IF Halted(s) THEN s
    ELSE with_operand(instruction, fetch_operand(s, instruction.addressing_mode, FALSE))

\* cpu.rs 229-230, given the opcode read at cpu.rs 226
decode(opcode) ==
    IF Halted(opcode.s) THEN opcode.s
    ELSE decoded(INSTRUCTIONS(opcode.value), IncrementPc(opcode.s))

\* cpu.rs 223-619
execute(s) == decode(read_byte([s EXCEPT !.ran = @ + 1], s.cpu.pc, FALSE))

\* cpu.rs 88-89, given the vector read at cpu.rs 88
enter_handler(vector) ==
    IF Halted(vector.s) THEN vector.s
    ELSE [vector.s EXCEPT !.cpu.pc = vector.value, !.cpu.cycles = 8]

\* cpu.rs 85: the flags as they now are go on the stack
push_flags(s) == push(s, s.cpu.flags)

\* cpu.rs 78-82
set_interrupt_flags(s) ==
    IF Halted(s) THEN s ELSE
    [s EXCEPT !.cpu.flags =
        SetFlag(SetFlag(SetFlag(@, B_FLAG, FALSE), U_FLAG, TRUE), DISABLE_INTERRUPTS, TRUE)]

\* cpu.rs 74-75
push_pc_low(s) == push(s, s.cpu.pc % 256)
push_pc_high(s) == push(s, s.cpu.pc \div 256)

\* cpu.rs 71-90
on_non_maskable_interrupt(s) ==
    enter_handler(
        read_word(push_flags(set_interrupt_flags(push_pc_low(push_pc_high(
                      [s EXCEPT !.entered = @ + 1, !.owed = s.cpu.cycles])))),
                  \hfffa, FALSE))

(***************************************************************************)
(* main.rs 168-225: the body of the loop of on_emulation_cycle             *)
(***************************************************************************)
\* main.rs 194: the byte just read goes to dma_data
dma_latch(r) ==
    IF Halted(r.s) THEN r.s ELSE [r.s EXCEPT !.memory.dma_data = r.value]

\* a faulty DMA engine that does not re-arm the sync wait when a transfer ends
dma_slot_without_rearm(s, index) ==
    IF s.memory.dma_waiting_for_sync
    THEN IF index % 2 = 1 THEN [s EXCEPT !.memory.dma_waiting_for_sync = FALSE] ELSE s
    ELSE IF index % 2 = 0
    THEN dma_latch(read_byte(s, s.memory.dma_page * 256 + s.memory.dma_address, FALSE))
    ELSE LET next == Wrap8(s.memory.dma_address + 1)
         IN  [s EXCEPT !.ppu.object_attribute_memory =
                           Put(@, s.memory.dma_address, s.memory.dma_data),
                       !.memory.dma_address = next,
                       !.memory.dma_happening = IF next = 0 THEN FALSE ELSE @]

\* main.rs 179-211: a CPU slot taken by the DMA engine
dma_slot(s, index) ==
    IF s.memory.dma_waiting_for_sync
    THEN IF index % 2 = 1 THEN [s EXCEPT !.memory.dma_waiting_for_sync = FALSE] ELSE s
    ELSE IF index % 2 = 0
    THEN dma_latch(read_byte(s, s.memory.dma_page * 256 + s.memory.dma_address, FALSE))
    ELSE LET next == Wrap8(s.memory.dma_address + 1)
         IN  [s EXCEPT !.ppu.object_attribute_memory =
                           Put(@, s.memory.dma_address, s.memory.dma_data),
                       !.memory.dma_address = next,
                       !.memory.dma_happening = IF next = 0 THEN FALSE ELSE @,
                       !.memory.dma_waiting_for_sync = IF next = 0 THEN TRUE ELSE @]

\* main.rs 214-215: a CPU slot taken by the CPU.  `cycles -= 1` at 0 wraps a
\* u32 to 2^32 - 1 without overflow checks; that value is written -1 here.
\* Every decoded instruction costs at least 2, so the case does not arise.
spend_cycle(s) ==
    IF Halted(s) THEN s
    ELSE IF s.cpu.cycles = 0
    THEN (IF s.checks THEN Panic(s, "attempt to subtract with overflow (cycles)")
          ELSE [s EXCEPT !.cpu.cycles = -1])
    ELSE [s EXCEPT !.cpu.cycles = @ - 1]

\* a faulty slot that pays a cycle first and runs the next instruction as soon
\* as none is owed
execute_when_paid(s) ==
    IF Halted(s) \/ s.cpu.cycles # 0 THEN s ELSE execute(s)

cpu_slot_paying_first(s) == execute_when_paid(spend_cycle(s))

cpu_slot(s) == spend_cycle(IF s.cpu.cycles = 0 THEN execute(s) ELSE s)

\* a faulty delivery that leaves the request pending
deliver_nmi_keeping_request(s) ==
    IF Halted(s) THEN s
    ELSE IF s.ppu.due_non_maskable_interrupt THEN on_non_maskable_interrupt(s)
    ELSE s

\* main.rs 219-223
deliver_nmi(s) ==
    IF Halted(s) THEN s
    ELSE IF s.ppu.due_non_maskable_interrupt
    THEN on_non_maskable_interrupt([s EXCEPT !.ppu.due_non_maskable_interrupt = FALSE])
    ELSE s

\* main.rs 176-217: every third iteration is a CPU slot
take_slot(s, index) ==
    IF index % 3 = 0
    THEN (IF s.memory.dma_happening THEN dma_slot(s, index) ELSE cpu_slot(s))
    ELSE s

\* main.rs 172-223: iteration `index` of the loop
emulation_tick(s, index) ==
    deliver_nmi(take_slot(ppu_execute(s), index))

(***************************************************************************)
(* Construction: Memory::default (memory.rs 103-152), Ppu::default         *)
(* (ppu.rs 210-262) and Cpu::from_memory (cpu.rs 45-64).                   *)
(***************************************************************************)
MemoryDefault(rom) ==
    [ rom                  |-> rom,
      rom_header           |-> [pgr_size |-> PgrSize(rom), vertical_mirroring |-> FALSE],
      ram                  |-> Empty,
      pgr_rom              |-> Empty,
      chr_rom              |-> Empty,
      controller           |-> [id \in {0, 1} |-> 0],
      internal_controller  |-> [id \in {0, 1} |-> 0],
      dma_page             |-> 0,
      dma_address          |-> 0,
      dma_data             |-> 0,
      dma_happening        |-> FALSE,
      dma_waiting_for_sync |-> TRUE ]

PpuDefault ==
    [ ppu_control                |-> 0,
      ppu_mask                   |-> 0,
      ppu_status                 |-> 0,
      table_ram_address          |-> 0,
      ppu_address                |-> 0,
      fine_x                     |-> 0,
      address_latch              |-> FALSE,
      data_buffer                |-> 0,
      scanline                   |-> 0,
      cycles                     |-> 0,
      name_tables                |-> Empty,
      palette                    |-> Empty,
      next_background_tile_id        |-> 0,
      next_background_tile_attribute |-> 0,
      next_background_tile_lsb       |-> 0,
      next_background_tile_msb       |-> 0,
      shifter_pattern_low            |-> 0,
      shifter_pattern_high           |-> 0,
      shifter_attribute_low          |-> 0,
      shifter_attribute_high         |-> 0,
      object_attribute_memory    |-> Empty,
      oam_address                |-> 0,
      current_scanline_sprites       |-> [k \in 0..7 |-> [y |-> 0, id |-> 0, attributes |-> 0, x |-> 0]],
      current_scanline_sprites_count |-> 0,
      sprite_shifter_pattern_low     |-> [k \in 0..7 |-> 0],
      sprite_shifter_pattern_high    |-> [k \in 0..7 |-> 0],
      sprite_zero_in_scanline        |-> FALSE,
      sprite_zero_being_rendered     |-> FALSE,
      due_non_maskable_interrupt |-> FALSE ]

\* The PPU at scanline 241, dot 1 of its first frame when nothing has been
\* written to it: the fetches of the visible lines have left row 0 of tile 0
\* in the background registers and, from scanline 7, row 7 of tile 0 in the
\* sprite shifters; the evaluation of scanline 239 found no sprite.
PpuIdle ==
    [PpuDefault EXCEPT
        !.scanline = 241, !.cycles = 1,
        !.next_background_tile_lsb = ChrImage(0),
        !.next_background_tile_msb = ChrImage(8),
        !.shifter_pattern_low = ChrImage(0),
        !.shifter_pattern_high = ChrImage(8),
        !.current_scanline_sprites = [k \in 0..7 |-> OffScreenSprite],
        !.sprite_shifter_pattern_low = [k \in 0..7 |-> ChrImage(7)],
        !.sprite_shifter_pattern_high = [k \in 0..7 |-> ChrImage(15)]]

\* what a PPU tick has found: whether it evaluated the sprites, the OAM
\* entries it took and whether there was a ninth; the dot it drew, the
\* background and sprite pixels there and the slot the sprite pixel is from
ProbeInit ==
    [ evaluated |-> FALSE, taken |-> <<>>, ninth |-> FALSE,
      dot |-> -1, tile_pixel |-> 0, sprite_pixel |-> 0, slot |-> -1 ]

Machine(c, p, m, checks) ==
    [cpu |-> c, ppu |-> p, memory |-> m, panic |-> "", checks |-> checks,
     bus |-> -1, entered |-> 0, owed |-> -1, ran |-> 0, probe |-> ProbeInit]

\* a faulty construction that starts at the NMI vector
CpuFromNmiVector(p, m) ==
    [ pc     |-> read_word(Machine([pc |-> 0], p, m, TRUE), \hfffa, FALSE).value,
      flags  |-> SetFlag(SetFlag(SetFlag(0, DISABLE_INTERRUPTS, TRUE), B_FLAG, TRUE),
                         U_FLAG, TRUE),
      sp     |-> \hfd,
      a      |-> 0,
      x      |-> 0,
      y      |-> 0,
      cycles |-> 7 ]

CpuFromMemory(p, m) ==
    [ pc     |-> read_word(Machine([pc |-> 0], p, m, TRUE), \hfffc, FALSE).value,
      flags  |-> SetFlag(SetFlag(SetFlag(0, DISABLE_INTERRUPTS, TRUE), B_FLAG, TRUE),
                         U_FLAG, TRUE),
      sp     |-> \hfd,
      a      |-> 0,
      x      |-> 0,
      y      |-> 0,
      cycles |-> 7 ]

(***************************************************************************)
(* The frame driver: main.rs 125 calls on_emulation_cycle once per pass of *)
(* the window loop; the calls follow one another on the same machine.  The *)
(* debugger windows drawn between two calls are not part of this           *)
(* specification, and no key is held down.                                 *)
(***************************************************************************)
\* calls of on_emulation_cycle in a run
MaxFrames == 7

\* what iteration `index` does with the CPU slot, if it has one
StepKind(m, c, index) ==
    IF index % 3 # 0 THEN "ppu"
    ELSE IF m.dma_happening
    THEN (IF m.dma_waiting_for_sync THEN "dma_sync"
          ELSE IF index % 2 = 0 THEN "dma_read" ELSE "dma_write")
    ELSE IF c.cycles = 0 THEN "execute" ELSE "credit"

\* History of a driver run.
\*   since_slot   PPU ticks since the last CPU slot
\*   last_gap     PPU ticks between the last two CPU slots (0: fewer than two)
\*   dma_slots    CPU slots since the last write to 0x4014, counted while the
\*                transfer it started was active
\*   dma_cost     dma_slots of the last finished transfer (0: none finished)
\*   dma_read     source index of the last DMA read of this transfer (-1: none)
\*   dma_ordered  every OAM write so far came after a read of its index
\*   transfers    finished transfers
\*   nmi_raised   PPU ticks that turned due_non_maskable_interrupt on
\*   nmi_entered  calls of on_non_maskable_interrupt
\*   nmi_in_frame nmi_raised since scanline -1 last began
\*   tick         the last PPU tick: position before it, flags before and after,
\*                PPUMASK, and the dot, pixels and sprite slot of its pixel
\*   taken        the OAM entries held in current_scanline_sprites, by slot
\*   ninth_found  a sprite evaluation since scanline -1, dot 1 found a ninth
\*                sprite in range
\*   frame_ticks  PPU ticks since the tick at scanline 0, dot 0 (that tick included)
\*   frame_length, previous_length
\*                PPU ticks of the last two finished PPU frames (0: not finished)
\*   run_slots    CPU slots with no transfer active since the last event
\*   last_event   the last event: the reset, an instruction ("execute") or an
\*                NMI entry ("nmi")
\*   charged      the cycles charged for the last instruction
\*   gap          for the last instruction run: the event before it, the CPU
\*                slots with no transfer active from that event to the slot of
\*                the instruction, that one included, and the cycles charged
\*                for the instruction before it
\*   owed         cpu.cycles when the last NMI entry began (-1: no entry yet)
\*   vblank_starts  PPU ticks that turned the VBLANK status bit on
\*   kind         StepKind of the last iteration
HistInit ==
    [ had_slot |-> FALSE, since_slot |-> 0, last_gap |-> 0,
      dma_slots |-> 0, dma_cost |-> 0, dma_read |-> -1, dma_ordered |-> TRUE,
      transfers |-> 0,
      nmi_raised |-> 0, nmi_entered |-> 0, nmi_in_frame |-> 0,
      tick |-> [scanline |-> -2, cycles |-> -1, generate_nmi |-> FALSE,
                vblank_before |-> FALSE, vblank_after |-> FALSE,
                due_before |-> FALSE, due_after |-> FALSE,
                hit_before |-> FALSE, hit_after |-> FALSE, mask |-> 0,
                dot |-> -1, tile_pixel |-> 0, sprite_pixel |-> 0, slot |-> -1],
      taken |-> <<>>, ninth_found |-> FALSE,
      frame_ticks |-> 0, frame_length |-> 0, previous_length |-> 0,
      run_slots |-> 0, last_event |-> "reset", charged |-> 0,
      gap |-> [after |-> "none", slots |-> 0, charged |-> 0],
      owed |-> -1,
      vblank_starts |-> 0,
      kind |-> "none" ]

Observe(h, s, ticked, t, index, kind) ==
    LET slot    == index % 3 = 0
        in_dma  == slot /\ s.memory.dma_happening
        started == ~s.memory.dma_happening /\ t.memory.dma_happening
        ended   == s.memory.dma_happening /\ ~t.memory.dma_happening
        raised  == ~s.ppu.due_non_maskable_interrupt /\ ticked.due_non_maskable_interrupt
        wrapped == ticked.scanline = -1 /\ s.ppu.scanline # -1
        slots   == IF started THEN 0 ELSE IF in_dma THEN h.dma_slots + 1 ELSE h.dma_slots
        top     == s.ppu.scanline = 0 /\ s.ppu.cycles = 0
        count   == h.run_slots + (IF slot /\ ~s.memory.dma_happening THEN 1 ELSE 0)
        ran     == t.ran > 0
        entry   == t.entered > 0
    IN  [ had_slot     |-> h.had_slot \/ slot,
          since_slot   |-> IF slot THEN 0 ELSE h.since_slot + 1,
          last_gap     |-> IF slot /\ h.had_slot THEN h.since_slot + 1 ELSE h.last_gap,
          dma_slots    |-> slots,
          dma_cost     |-> IF ended THEN slots ELSE h.dma_cost,
          dma_read     |-> IF started THEN -1
                           ELSE IF kind = "dma_read" THEN s.memory.dma_address
                           ELSE h.dma_read,
          dma_ordered  |-> h.dma_ordered /\
                               (kind = "dma_write" => h.dma_read = s.memory.dma_address),
          transfers    |-> IF ended THEN h.transfers + 1 ELSE h.transfers,
          nmi_raised   |-> IF raised THEN h.nmi_raised + 1 ELSE h.nmi_raised,
          nmi_entered  |-> h.nmi_entered + t.entered,
          nmi_in_frame |-> (IF wrapped THEN 0 ELSE h.nmi_in_frame) + (IF raised THEN 1 ELSE 0),
          tick         |-> [ scanline      |-> s.ppu.scanline,
                             cycles        |-> s.ppu.cycles,
                             generate_nmi  |-> Contains(s.ppu.ppu_control, GENERATE_NMI),
                             vblank_before |-> Contains(s.ppu.ppu_status, V_BLANK),
                             vblank_after  |-> Contains(ticked.ppu_status, V_BLANK),
                             due_before    |-> s.ppu.due_non_maskable_interrupt,
                             due_after     |-> ticked.due_non_maskable_interrupt,
                             hit_before    |-> Contains(s.ppu.ppu_status, SPRITE_ZERO_HIT),
                             hit_after     |-> Contains(ticked.ppu_status, SPRITE_ZERO_HIT),
                             mask          |-> s.ppu.ppu_mask,
                             dot           |-> t.probe.dot,
                             tile_pixel    |-> t.probe.tile_pixel,
                             sprite_pixel  |-> t.probe.sprite_pixel,
                             slot          |-> t.probe.slot ],
          taken        |-> IF t.probe.evaluated THEN t.probe.taken ELSE h.taken,
          ninth_found  |-> IF s.ppu.scanline = -1 /\ s.ppu.cycles = 1 THEN FALSE
                           ELSE h.ninth_found \/ (t.probe.evaluated /\ t.probe.ninth),
          frame_ticks  |-> IF top THEN 1 ELSE h.frame_ticks + 1,
          frame_length |-> IF top /\ h.frame_ticks > 0 THEN h.frame_ticks ELSE h.frame_length,
          previous_length |-> IF top /\ h.frame_ticks > 0 THEN h.frame_length
                              ELSE h.previous_length,
          run_slots    |-> IF entry \/ ran THEN 0 ELSE count,
          last_event   |-> IF entry THEN "nmi" ELSE IF ran THEN "execute" ELSE h.last_event,
          charged      |-> IF ran THEN t.cpu.cycles + 1 ELSE h.charged,
          gap          |-> IF ran
                           THEN [after |-> h.last_event, slots |-> count, charged |-> h.charged]
                           ELSE h.gap,
          owed         |-> IF entry THEN t.owed ELSE h.owed,
          vblank_starts |-> IF ~Contains(s.ppu.ppu_status, V_BLANK)
                                  /\ Contains(ticked.ppu_status, V_BLANK)
                            THEN h.vblank_starts + 1 ELSE h.vblank_starts,
          kind         |-> kind ]

InitRun ==
    /\ mode = "run"
    /\ overflow_checks = TRUE
    /\ \E rom \in Cartridges :
          /\ memory = MemoryDefault(rom)
          /\ cpu = CpuFromMemory(PpuDefault, MemoryDefault(rom))
    /\ ppu = PpuDefault
    /\ i = 0
    /\ frame = 0
    /\ panicked = ""
    /\ hist = HistInit

\* one iteration of the loop, of the given kind
DriverStep(kind) ==
    /\ mode = "run"
    /\ panicked = ""
    /\ frame < MaxFrames
    /\ StepKind(memory, cpu, i) = kind
    /\ \E s \in {Machine(cpu, ppu, memory, overflow_checks)} :
       \E t \in {emulation_tick(s, i)} :
       \E ticked \in {ppu_execute(s).ppu} :
          /\ cpu' = t.cpu
          /\ ppu' = t.ppu
          /\ memory' = t.memory
          /\ panicked' = t.panic
          /\ hist' = Observe(hist, s, ticked, t, i, kind)
    /\ i' = IF i + 1 = CYCLES_PER_FRAME THEN 0 ELSE i + 1
    /\ frame' = IF i + 1 = CYCLES_PER_FRAME THEN frame + 1 ELSE frame
    /\ UNCHANGED <<overflow_checks, mode>>

PpuOnlyTick == DriverStep("ppu")
CpuExecuteTick == DriverStep("execute")
CpuCreditTick == DriverStep("credit")
DmaSyncTick == DriverStep("dma_sync")
DmaReadTick == DriverStep("dma_read")
DmaWriteTick == DriverStep("dma_write")

Next ==
    \/ PpuOnlyTick
    \/ CpuExecuteTick
    \/ CpuCreditTick
    \/ DmaSyncTick
    \/ DmaReadTick
    \/ DmaWriteTick

Spec == InitRun /\ [][Next]_vars

(***************************************************************************)
(* Properties of the frame driver (specification Spec)                     *)
(***************************************************************************)
\* the byte at CPU address (dma_page << 8) | index, as the bus reads it now
SourceByte(index) ==
    read_byte(Machine(cpu, ppu, memory, overflow_checks),
              memory.dma_page * 256 + index, FALSE).value

\* C1: once 514 CPU slots have passed since a write of page P to 0x4014, the
\* transfer is over and OAM holds the 256 bytes of page P; and every OAM
\* write of a transfer follows a read of the same source index.
C1_DmaEndToEnd ==
    /\ hist.dma_ordered
    /\ hist.dma_slots >= 514 =>
          /\ ~memory.dma_happening
          /\ \A index \in 0..255 : OamAt(ppu, index) = SourceByte(index)

\* C2: every finished transfer took 513 or 514 CPU slots, counted from the
\* first slot after the write to 0x4014 to the slot that ends the transfer.
C2_DmaCost == hist.dma_cost # 0 => hist.dma_cost \in {513, 514}

\* C3: a driver iteration that begins with the transfer active leaves every
\* CPU register and the CPU's cycle count as they were.
C3_CpuFrozenDuringDma == [][memory.dma_happening => cpu' = cpu]_vars

\* C4: between two consecutive CPU slots there are exactly three PPU ticks.
C4_ThreeTicksPerSlot == hist.last_gap # 0 => hist.last_gap = 3

\* C5: between two driver iterations no NMI request is pending and the NMI
\* handler has been entered exactly as often as the PPU has raised a request.
C5_NmiConsumedOnce ==
    /\ ~ppu.due_non_maskable_interrupt
    /\ hist.nmi_entered = hist.nmi_raised

\* a second request has been raised and served
C5_Witness == hist.nmi_raised = 2 /\ hist.nmi_entered = 2 /\ hist.tick.due_after

\* C7: the tick at scanline 241, dot 1 sets VBLANK and raises the NMI request
\* exactly when PPUCTRL bit 7 is set; no other tick sets VBLANK or raises a
\* request; at most one request is raised in a PPU frame.
C7_VblankAndNmi ==
    LET k  == hist.tick
        at == k.scanline = 241 /\ k.cycles = 1
    IN  /\ (k.scanline # -2 /\ at) =>
              (k.vblank_after /\ (k.due_after <=> (k.generate_nmi \/ k.due_before)))
        /\ (k.scanline # -2 /\ ~at) =>
              ((k.vblank_after => k.vblank_before) /\ (k.due_after => k.due_before))
        /\ hist.nmi_in_frame <= 1

\* the tick at 241:1 of the second PPU frame has raised a request
C7_Witness ==
    /\ hist.tick.scanline = 241 /\ hist.tick.cycles = 1
    /\ ~hist.tick.vblank_before /\ hist.tick.vblank_after
    /\ hist.tick.generate_nmi /\ hist.tick.due_after
    /\ hist.nmi_raised = 2 /\ hist.nmi_in_frame = 1

\* C23: between two driver iterations pc is in 0..0xffff, sp in 0..0xff and
\* cycles is not negative, and the run has not been stopped by an overflow of
\* pc, of sp or of cycles: the decrement of cycles was never applied to zero
\* and no update of pc or sp left the register's range.
C23_CpuRanges ==
    /\ cpu.pc \in 0 .. 65535
    /\ cpu.sp \in 0 .. 255
    /\ cpu.cycles >= 0
    /\ panicked \notin {"attempt to add with overflow (pc)",
                        "attempt to add with overflow (sp)",
                        "attempt to subtract with overflow (sp)",
                        "attempt to subtract with overflow (cycles)"}

\* C29 as stated: the first instruction runs on the 7th CPU slot after the
\* reset and on the 8th after an NMI entry, and an instruction runs as many
\* CPU slots after the one before it as that one was charged cycles.
C29_SeventhSlot ==
    /\ hist.gap.after = "reset" => hist.gap.slots = 7
    /\ hist.gap.after = "nmi" => hist.gap.slots = 8
    /\ hist.gap.after = "execute" => hist.gap.slots = hist.gap.charged

\* C29: counting the CPU slots in which no transfer is active, the first
\* instruction runs on the 8th slot after the reset, the first instruction of
\* the handler on the 9th slot after the NMI entry, and an instruction with
\* no NMI entry before it runs as many slots after the one before it as that
\* one was charged cycles.
C29_SlotCountdown ==
    /\ hist.gap.after = "reset" => hist.gap.slots = 8
    /\ hist.gap.after = "nmi" => hist.gap.slots = 9
    /\ hist.gap.after = "execute" => hist.gap.slots = hist.gap.charged

\* the first instruction of the NMI handler has run on the 9th slot after a
\* second NMI entry
C29_Witness ==
    /\ hist.gap.after = "nmi" /\ hist.gap.slots = 9
    /\ hist.nmi_entered = 2
    /\ hist.last_event = "execute"

\* C30: an NMI entry begins only when cpu.cycles is 0.
C30_NmiAtBoundary == hist.owed \in {-1, 0}

\* C37: the CYCLES_PER_FRAME PPU ticks of one call of on_emulation_cycle
\* bring the PPU back to the scanline and dot it started from, so that
\* between two calls the PPU is at scanline 0, dot 0 and VBLANK has been set
\* once per call made.
C37_FramePerCall ==
    (i = 0 /\ panicked = "") =>
        /\ ppu.scanline = 0 /\ ppu.cycles = 0
        /\ hist.vblank_starts = frame

\* the DMA engine is idle and armed, or busy
DmaArmed ==
    /\ ~memory.dma_happening => memory.dma_waiting_for_sync
    /\ (memory.dma_happening /\ hist.dma_slots = 0) =>
           /\ memory.dma_address = 0
           /\ memory.dma_waiting_for_sync

\* an iteration that finds the engine waiting for its sync reads no byte and
\* writes nothing to OAM
DmaWaits ==
    (memory.dma_happening /\ memory.dma_waiting_for_sync) =>
        /\ memory'.dma_data = memory.dma_data
        /\ memory'.dma_address = memory.dma_address
        /\ ppu'.object_attribute_memory = ppu.object_attribute_memory

C18_SpriteOverflow == hist.ninth_found => Contains(ppu.ppu_status, SPRITE_OVERFLOW)

\* C19: a PPU tick turns SPRITE_ZERO_HIT on only if the background pixel and
\* the sprite pixel of its dot are both opaque, the sprite pixel is that of
\* OAM entry 0, SHOW_BACKGROUND and SHOW_SPRITES are set and the dot is in
\* 1..257, or in 9..257 when a show-in-leftmost-pixels bit is clear.
C19_SpriteZeroHit ==
    LET k == hist.tick
    IN  (k.hit_after /\ ~k.hit_before) =>
            /\ k.tile_pixel > 0 /\ k.sprite_pixel > 0
            /\ k.slot >= 0 /\ hist.taken[k.slot + 1] = 0
            /\ Contains(k.mask, SHOW_BACKGROUND) /\ Contains(k.mask, SHOW_SPRITES)
            /\ k.dot <= 257
            /\ k.dot >= (IF Contains(k.mask, SHOW_BACKGROUND_IN_LEFTMOST_PIXELS)
                            /\ Contains(k.mask, SHOW_SPRITES_IN_LEFTMOST_PIXELS)
                         THEN 1 ELSE 9)

\* C20: of two successive PPU frames, counted from the tick at scanline 0,
\* dot 0, one lasts 341 * 262 ticks and the other one tick fewer.
C20_OddFrameSkip ==
    hist.previous_length # 0 =>
        {hist.previous_length, hist.frame_length} = {341 * 262, 341 * 262 - 1}

(***************************************************************************)
(* NMI entry on its own: Cpu::on_non_maskable_interrupt (cpu.rs 71-90)     *)
(* called once on a CPU whose pc, sp and flags are drawn from the sets     *)
(* below, in a build with and in a build without overflow checks.          *)
(***************************************************************************)
NmiPcs == {\h8000, \h80ff, \hc123}
NmiSps == {\hfd, \h80, \h02, \h00}
NmiFlags == {\h00, \h04, \h20, \h34, \hb1, \hff}

InitNmi ==
    /\ mode = "nmi"
    /\ overflow_checks \in BOOLEAN
    /\ memory = MemoryDefault("dma3")
    /\ ppu = PpuDefault
    /\ \E pc \in NmiPcs, sp \in NmiSps, flags \in NmiFlags :
          cpu = [CpuFromMemory(PpuDefault, MemoryDefault("dma3"))
                    EXCEPT !.pc = pc, !.sp = sp, !.flags = flags, !.cycles = 0]
    /\ i = 0
    /\ frame = 0
    /\ panicked = ""
    /\ hist = [done |-> FALSE, before |-> cpu]

NmiEntry ==
    /\ mode = "nmi"
    /\ ~hist.done
    /\ \E t \in {on_non_maskable_interrupt(Machine(cpu, ppu, memory, overflow_checks))} :
          /\ cpu' = t.cpu
          /\ ppu' = t.ppu
          /\ memory' = t.memory
          /\ panicked' = t.panic
    /\ hist' = [done |-> TRUE, before |-> cpu]
    /\ UNCHANGED <<i, frame, overflow_checks, mode>>

NextNmi == NmiEntry

NmiSpec == InitNmi /\ [][NextNmi]_vars

\* the byte on the stack page at stack pointer sp
StackAt(sp) == RamAt(memory, 256 + sp)

\* C6: after NMI entry the three bytes pushed are the old pc high, the old pc
\* low and the old flags with B = 0 and U = 1 and every other bit as it was;
\* IntDisable is set, pc is the word at 0xFFFA, cycles is 8 and sp is down 3.
C6_NmiEntry ==
    (hist.done /\ panicked = "") =>
        LET old == hist.before
        IN  /\ StackAt(old.sp) = old.pc \div 256
            /\ StackAt(Wrap8(old.sp + 255)) = old.pc % 256
            /\ StackAt(Wrap8(old.sp + 254)) =
                   SetFlag(SetFlag(old.flags, B_FLAG, FALSE), U_FLAG, TRUE)
            /\ Contains(cpu.flags, DISABLE_INTERRUPTS)
            /\ cpu.pc = PgrAt(memory, \h7ffa) + PgrAt(memory, \h7ffb) * 256
            /\ cpu.cycles = 8
            /\ cpu.sp = Wrap8(old.sp + 253)

(***************************************************************************)
(* The PPU registers on their own: the CPU reads and writes 0x2000-0x2007  *)
(* through Memory::read_byte / write_byte and the PPU ticks, in any order, *)
(* MaxOps operations in all.  The PPU starts at scanline 241, dot 1, one    *)
(* tick before VBLANK; SPRITE_ZERO_HIT may be left set by the frame, and   *)
(* palette entry 0 holds the backdrop colour BackdropColour, written there *)
(* through PPUADDR and PPUDATA before the address was set back to 0.       *)
(***************************************************************************)
MaxOps == 4

ControlValues == {\h00, \h04}
AddressBytes == {\h05, \h23, \hbf, \h3e, \hff}
ScrollBytes == {\h7d}
DataBytes == {\h2a}
StatusValues == {\h00, \h40}
BackdropColour == \h2a
OamAddresses == {\h41}

\* hist.log: the operations so far, each with the latch it found
LogEntry(op, value) == [op |-> op, value |-> value, latch |-> ppu.address_latch]

InitRegs ==
    /\ mode = "regs"
    /\ overflow_checks = TRUE
    /\ memory = MemoryDefault("dma3")
    /\ cpu = CpuFromMemory(PpuDefault, MemoryDefault("dma3"))
    /\ \E status \in StatusValues :
          ppu = [PpuIdle EXCEPT !.ppu_status = status,
                                !.palette = Put(Empty, 0, BackdropColour)]
    /\ i = 0
    /\ frame = 0
    /\ panicked = ""
    /\ hist = [log |-> << >>, before |-> ppu, value |-> 0, bus |-> -1]

\* the CPU reads register `address`
RegRead(op, address) ==
    /\ mode = "regs"
    /\ panicked = ""
    /\ Len(hist.log) < MaxOps
    /\ \E r \in {read_byte(Machine(cpu, ppu, memory, overflow_checks), address, FALSE)} :
          /\ ppu' = r.s.ppu
          /\ memory' = r.s.memory
          /\ panicked' = r.s.panic
          /\ hist' = [log |-> Append(hist.log, LogEntry(op, 0)), before |-> ppu,
                      value |-> r.value, bus |-> r.s.bus]
    /\ UNCHANGED <<cpu, i, frame, overflow_checks, mode>>

\* the CPU writes `value` to register `address`
RegWrite(op, address, value) ==
    /\ mode = "regs"
    /\ panicked = ""
    /\ Len(hist.log) < MaxOps
    /\ \E t \in {write_byte(Machine(cpu, ppu, memory, overflow_checks), address, value)} :
          /\ ppu' = t.ppu
          /\ memory' = t.memory
          /\ panicked' = t.panic
          /\ hist' = [log |-> Append(hist.log, LogEntry(op, value)), before |-> ppu,
                      value |-> 0, bus |-> t.bus]
    /\ UNCHANGED <<cpu, i, frame, overflow_checks, mode>>

ReadStatus == RegRead("read_status", \h2002)
ReadData == RegRead("read_data", \h2007)
WriteControl == \E value \in ControlValues : RegWrite("write_control", \h2000, value)
WriteScroll == \E value \in ScrollBytes : RegWrite("write_scroll", \h2005, value)
WriteAddress == \E value \in AddressBytes : RegWrite("write_address", \h2006, value)
WriteData == \E value \in DataBytes : RegWrite("write_data", \h2007, value)
WriteOamAddress == \E value \in OamAddresses : RegWrite("write_oam_address", \h2003, value)
WriteOamData == \E value \in DataBytes : RegWrite("write_oam_data", \h2004, value)

RegTick ==
    /\ mode = "regs"
    /\ panicked = ""
    /\ Len(hist.log) < MaxOps
    /\ \E t \in {ppu_execute(Machine(cpu, ppu, memory, overflow_checks))} :
          /\ ppu' = t.ppu
          /\ panicked' = t.panic
    /\ hist' = [log |-> Append(hist.log, LogEntry("tick", 0)), before |-> ppu,
                value |-> 0, bus |-> -1]
    /\ UNCHANGED <<cpu, memory, i, frame, overflow_checks, mode>>

NextRegs ==
    \/ ReadStatus
    \/ ReadData
    \/ WriteControl
    \/ WriteScroll
    \/ WriteAddress
    \/ WriteData
    \/ WriteOamAddress
    \/ WriteOamData
    \/ RegTick

RegsSpec == InitRegs /\ [][NextRegs]_vars

(***************************************************************************)
(* Properties of the PPU registers (specification RegsSpec)                *)
(***************************************************************************)
\* the last operation is `op`
LastOp(op) == Len(hist.log) > 0 /\ hist.log[Len(hist.log)].op = op

\* the k-th operation from the end is a PPUADDR write
AddressWriteAt(k) ==
    Len(hist.log) > k /\ hist.log[Len(hist.log) - k].op = "write_address"

\* the address that high byte `high` and low byte `low` spell
AddressOf(high, low) == (high % 64) * 256 + low

\* what the PPU address space holds at `address` now
PpuMemoryAt(address) ==
    read_byte_from_ppu(Machine(cpu, ppu, memory, overflow_checks), address)

\* C8: a read of PPUSTATUS returns the register as it was, clears VBLANK and
\* the write latch, and leaves the sprite-overflow and sprite-zero-hit bits,
\* v, t and the read buffer alone.
C8_StatusRead ==
    LastOp("read_status") =>
        /\ hist.value = hist.before.ppu_status
        /\ ~Contains(ppu.ppu_status, V_BLANK)
        /\ ppu.address_latch = FALSE
        /\ Contains(ppu.ppu_status, SPRITE_OVERFLOW)
               = Contains(hist.before.ppu_status, SPRITE_OVERFLOW)
        /\ Contains(ppu.ppu_status, SPRITE_ZERO_HIT)
               = Contains(hist.before.ppu_status, SPRITE_ZERO_HIT)
        /\ ppu.ppu_address = hist.before.ppu_address
        /\ ppu.table_ram_address = hist.before.table_ram_address
        /\ ppu.data_buffer = hist.before.data_buffer

\* a read that found VBLANK, sprite-zero-hit and the latch set, with v and t
\* different from zero
C8_Witness ==
    /\ LastOp("read_status")
    /\ hist.value = \hc0
    /\ hist.before.address_latch
    /\ hist.before.table_ram_address # 0

\* C9: a first PPUADDR write leaves v alone; after the pair H, L from a clear
\* latch v = t = ((H & 0x3F) << 8) | L; a PPUDATA access right after the pair
\* reads or writes PPU memory at that address and then steps v.
C9_AddressPair ==
    LET n    == Len(hist.log)
        pair == AddressWriteAt(1) /\ AddressWriteAt(0) /\ ~hist.log[n - 1].latch
        data == AddressWriteAt(2) /\ AddressWriteAt(1) /\ ~hist.log[n - 2].latch
                    /\ (LastOp("read_data") \/ LastOp("write_data"))
    IN  /\ (AddressWriteAt(0) /\ ~hist.log[n].latch) =>
               ppu.ppu_address = hist.before.ppu_address
        /\ pair =>
               /\ ppu.ppu_address = AddressOf(hist.log[n - 1].value, hist.log[n].value)
               /\ ppu.table_ram_address = ppu.ppu_address
        /\ data =>
               LET address == AddressOf(hist.log[n - 2].value, hist.log[n - 1].value)
               IN  /\ hist.bus = address
                   /\ ppu.ppu_address \in {address + 1, address + 32}
                   /\ LastOp("read_data") => ppu.data_buffer = PpuMemoryAt(address)
                   /\ LastOp("write_data") =>
                          PpuMemoryAt(address) =
                              IF address >= \h3f00 THEN hist.log[n].value % 64
                              ELSE hist.log[n].value

\* the pair 0xBF, 0x23 followed by a PPUDATA write, which lands in the palette
C9_Witness ==
    /\ AddressWriteAt(2) /\ AddressWriteAt(1) /\ LastOp("write_data")
    /\ ~hist.log[Len(hist.log) - 2].latch
    /\ hist.log[Len(hist.log) - 2].value = \hbf
    /\ hist.bus = \h3f23
    /\ ppu.ppu_address = \h3f24

\* C10: a PPUDATA read steps v by 32 when PPUCTRL bit 2 is set and by 1 when
\* it is clear, the step of a PPUDATA write.
C10_ReadIncrement ==
    LastOp("read_data") =>
        ppu.ppu_address = hist.before.ppu_address
            + (IF Contains(hist.before.ppu_control, VRAM_ADDR_INCREMENT) THEN 32 ELSE 1)

\* the last four operations are a PPUADDR pair from a clear latch that spells
\* `address`, and two PPUDATA reads
TwoReadsAfterPair(address) ==
    LET n == Len(hist.log)
    IN  /\ AddressWriteAt(3) /\ AddressWriteAt(2) /\ ~hist.log[n - 3].latch
        /\ AddressOf(hist.log[n - 3].value, hist.log[n - 2].value) = address
        /\ hist.log[n - 1].op = "read_data"
        /\ LastOp("read_data")

\* a PPUDATA read returns the old buffer below 0x3F00 and the fresh byte from
\* 0x3F00 on, and leaves the fresh byte in the buffer
BufferedRead ==
    (LastOp("read_data") /\ panicked = "") =>
        LET v == hist.before.ppu_address
        IN  /\ hist.bus = v
            /\ ppu.data_buffer = PpuMemoryAt(v)
            /\ hist.value = IF v < \h3f00 THEN hist.before.data_buffer
                                          ELSE PpuMemoryAt(v)

\* C11: a PPUDATA read with v < 0x3F00 returns the read buffer as it was and
\* sets the buffer to ppu_read(v); with v >= 0x3F00 it returns ppu_read(v)
\* and sets the buffer to it.  After PPUADDR is set to A < 0x3F00 the second
\* read returns the byte stored at A, provided v is still below 0x3F00 at
\* the second read.
C11_ReadBuffer ==
    /\ BufferedRead
    /\ \A address \in {high * 256 + low : high \in {b % 64 : b \in AddressBytes},
                                          low \in AddressBytes} :
           (TwoReadsAfterPair(address) /\ address < \h3f00
                /\ hist.before.ppu_address < \h3f00) =>
               hist.value = PpuMemoryAt(address)

\* PPUADDR is set to 0x0523 in CHR; the second read returns the byte there
C11_Witness ==
    /\ TwoReadsAfterPair(\h0523)
    /\ hist.before.data_buffer = ChrImage(\h0523)
    /\ hist.value = ChrImage(\h0523)
    /\ hist.value # 0
    /\ ppu.ppu_address = \h0525

\* C11 as the specification has it: after PPUADDR is set to any non-palette
\* address A, the second PPUDATA read returns the byte stored at A.
C11_SecondReadAnyAddress ==
    /\ BufferedRead
    /\ \A address \in {high * 256 + low : high \in {b % 64 : b \in AddressBytes},
                                          low \in AddressBytes} :
           (TwoReadsAfterPair(address) /\ address < \h3f00) =>
               hist.value = PpuMemoryAt(address)

\* C12: a write of x to OAMDATA completes without an error, stores x in
\* OAM[oam_addr] and leaves oam_addr and every other PPU register as it was.
C12_OamDataWrite ==
    LastOp("write_oam_data") =>
        /\ panicked = ""
        /\ OamAt(ppu, hist.before.oam_address) = hist.log[Len(hist.log)].value
        /\ ppu = [hist.before EXCEPT !.object_attribute_memory =
                      Put(@, hist.before.oam_address, hist.log[Len(hist.log)].value)]

\* the index in hist.log of the last PPUSTATUS read (0: none since reset)
LastStatusRead ==
    LET reads == {k \in 1 .. Len(hist.log) : hist.log[k].op = "read_status"}
    IN  IF reads = {} THEN 0 ELSE CHOOSE k \in reads : \A j \in reads : j <= k

\* the PPUSCROLL and PPUADDR writes since then, counted together
LatchWrites ==
    Cardinality({k \in (LastStatusRead + 1) .. Len(hist.log) :
                    hist.log[k].op \in {"write_scroll", "write_address"}})

\* C39: address_latch is true exactly when an odd number of PPUSCROLL and
\* PPUADDR writes, counted together, have been made since the later of the
\* reset and the last PPUSTATUS read; no other register access and no PPU
\* tick changes the latch.
C39_SharedLatch ==
    /\ ppu.address_latch = (LatchWrites % 2 = 1)
    /\ (Len(hist.log) > 0 /\ ~LastOp("read_status") /\ ~LastOp("write_scroll")
            /\ ~LastOp("write_address")) =>
           ppu.address_latch = hist.before.address_latch

\* a PPUSCROLL write and a PPUADDR write have closed the latch between them,
\* and a third write has opened it again
C39_Witness ==
    /\ Len(hist.log) = 4 /\ panicked = ""
    /\ hist.log[1].op = "read_status"
    /\ hist.log[2].op = "write_scroll" /\ hist.log[3].op = "write_address"
    /\ hist.log[4].op = "write_scroll"
    /\ hist.before.address_latch = FALSE /\ ppu.address_latch = TRUE

(***************************************************************************)
(* The CPU bus on its own: MaxBusOps reads and writes of Memory::read_byte *)
(* and Memory::write_byte at addresses in RAM, in the mirrors of RAM, at   *)
(* PPU registers and in their mirrors.  The PPU is one tick into VBLANK.   *)
(***************************************************************************)
MaxBusOps == 3

BusAddresses == {\h0005, \h0805, \h1805, \h2002, \h200a, \h2006, \h3ffe}
BusValues == {\h11, \h3f}

InitBus ==
    /\ mode = "bus"
    /\ overflow_checks = TRUE
    /\ memory = MemoryDefault("dma3")
    /\ cpu = CpuFromMemory(PpuDefault, MemoryDefault("dma3"))
    /\ ppu = [PpuIdle EXCEPT !.cycles = 2, !.ppu_status = V_BLANK]
    /\ i = 0
    /\ frame = 0
    /\ panicked = ""
    /\ hist = [log |-> << >>, before |-> [ppu |-> ppu, memory |-> memory], value |-> 0]

BusRead ==
    /\ mode = "bus"
    /\ panicked = ""
    /\ Len(hist.log) < MaxBusOps
    /\ \E address \in BusAddresses :
       \E r \in {read_byte(Machine(cpu, ppu, memory, overflow_checks), address, FALSE)} :
          /\ ppu' = r.s.ppu
          /\ memory' = r.s.memory
          /\ panicked' = r.s.panic
          /\ hist' = [log |-> Append(hist.log,
                                     [op |-> "read", address |-> address, value |-> 0]),
                      before |-> [ppu |-> ppu, memory |-> memory],
                      value |-> r.value]
    /\ UNCHANGED <<cpu, i, frame, overflow_checks, mode>>

BusWrite ==
    /\ mode = "bus"
    /\ panicked = ""
    /\ Len(hist.log) < MaxBusOps
    /\ \E address \in BusAddresses, value \in BusValues :
       \E t \in {write_byte(Machine(cpu, ppu, memory, overflow_checks), address, value)} :
          /\ ppu' = t.ppu
          /\ memory' = t.memory
          /\ panicked' = t.panic
          /\ hist' = [log |-> Append(hist.log,
                                     [op |-> "write", address |-> address, value |-> value]),
                      before |-> [ppu |-> ppu, memory |-> memory],
                      value |-> 0]
    /\ UNCHANGED <<cpu, i, frame, overflow_checks, mode>>

NextBus ==
    \/ BusRead
    \/ BusWrite

BusSpec == InitBus /\ [][NextBus]_vars

(***************************************************************************)
(* Properties of the CPU bus (specification BusSpec)                       *)
(***************************************************************************)
\* the k-th access from the end (0: the last)
BusOpAt(k) == hist.log[Len(hist.log) - k]

\* C13: a write of x to any A <= 0x1FFF is accepted and stores x in
\* RAM[A & 0x7FF]; a read of any A' <= 0x1FFF with the same low 11 bits
\* then returns x.
C13_RamMirrors ==
    /\ (Len(hist.log) >= 1 /\ BusOpAt(0).op = "write" /\ BusOpAt(0).address <= \h1fff) =>
           /\ panicked = ""
           /\ RamAt(memory, BusOpAt(0).address % 2048) = BusOpAt(0).value
    /\ (Len(hist.log) >= 2 /\ BusOpAt(1).op = "write" /\ BusOpAt(0).op = "read"
            /\ BusOpAt(1).address <= \h1fff /\ BusOpAt(0).address <= \h1fff
            /\ BusOpAt(1).address % 2048 = BusOpAt(0).address % 2048) =>
           /\ panicked = ""
           /\ hist.value = BusOpAt(1).value

\* C14: a read or write at any A in 0x2000..0x3FFF does not fail, and has the
\* result and the effect on the PPU of the same access at 0x2000 + (A & 7).
C14_RegisterMirrors ==
    (Len(hist.log) >= 1 /\ BusOpAt(0).address >= \h2000 /\ BusOpAt(0).address <= \h3fff) =>
        LET s0   == Machine(cpu, hist.before.ppu, hist.before.memory, overflow_checks)
            base == \h2000 + (BusOpAt(0).address % 8)
        IN  /\ panicked = ""
            /\ BusOpAt(0).op = "read" =>
                   /\ ppu = read_byte(s0, base, FALSE).s.ppu
                   /\ hist.value = read_byte(s0, base, FALSE).value
            /\ BusOpAt(0).op = "write" =>
                   ppu = write_byte(s0, base, BusOpAt(0).value).ppu

(***************************************************************************)
(* The controller ports: the host sets controller[0] from the keyboard     *)
(* before each call of on_emulation_cycle (main.rs 114-123), the CPU       *)
(* writes and reads 0x4016 and 0x4017.  controller[1] is never set.  A     *)
(* port is read at most MaxReads times between two writes to it.           *)
(***************************************************************************)
MaxReads == 10

\* the keys of main.rs 116-123, from bit 7 down to bit 0; they stand for the
\* buttons A, B, Select, Start, Up, Down, Left, Right
Keys == << "X", "Z", "A", "S", "Up", "Down", "Left", "Right" >>

KeyStates == { {}, {"X", "A", "Up", "Left"}, {"Z", "Right"} }

\* main.rs 115-123
ControllerByte(pressed) ==
      (IF "X" \in pressed THEN \h80 ELSE 0)
    + (IF "Z" \in pressed THEN \h40 ELSE 0)
    + (IF "A" \in pressed THEN \h20 ELSE 0)
    + (IF "S" \in pressed THEN \h10 ELSE 0)
    + (IF "Up" \in pressed THEN \h08 ELSE 0)
    + (IF "Down" \in pressed THEN \h04 ELSE 0)
    + (IF "Left" \in pressed THEN \h02 ELSE 0)
    + (IF "Right" \in pressed THEN \h01 ELSE 0)

\* hist of a controller run
\*   op, port, value  the last operation, its port and the bit a read returned
\*   pressed          the keys the host last reported
\*   strobed[id]      port id has been written
\*   latched[id]      the keys held down when port id was last written
\*   reads[id]        reads of port id since its last write
\*   before           memory before the last operation
InitPad ==
    /\ mode = "pad"
    /\ overflow_checks = TRUE
    /\ memory = MemoryDefault("dma3")
    /\ cpu = CpuFromMemory(PpuDefault, MemoryDefault("dma3"))
    /\ ppu = PpuDefault
    /\ i = 0
    /\ frame = 0
    /\ panicked = ""
    /\ hist = [op |-> "none", port |-> 0, value |-> 0, pressed |-> {},
               strobed |-> [id \in {0, 1} |-> FALSE],
               latched |-> [id \in {0, 1} |-> {}],
               reads |-> [id \in {0, 1} |-> 0],
               before |-> memory]

HostKeys ==
    /\ mode = "pad"
    /\ panicked = ""
    /\ \E pressed \in KeyStates :
          /\ memory' = [memory EXCEPT !.controller[0] = ControllerByte(pressed)]
          /\ hist' = [hist EXCEPT !.op = "keys", !.pressed = pressed, !.before = memory]
    /\ UNCHANGED <<cpu, ppu, i, frame, panicked, overflow_checks, mode>>

PadWrite ==
    /\ mode = "pad"
    /\ panicked = ""
    /\ \E id \in {0, 1}, value \in {0, 1} :
       \E t \in {write_byte(Machine(cpu, ppu, memory, overflow_checks), \h4016 + id, value)} :
          /\ ppu' = t.ppu
          /\ memory' = t.memory
          /\ panicked' = t.panic
          /\ hist' = [hist EXCEPT !.op = "write", !.port = id, !.value = 0,
                                  !.strobed[id] = TRUE,
                                  !.latched[id] = IF id = 0 THEN hist.pressed ELSE {},
                                  !.reads[id] = 0,
                                  !.before = memory]
    /\ UNCHANGED <<cpu, i, frame, overflow_checks, mode>>

PadRead ==
    /\ mode = "pad"
    /\ panicked = ""
    /\ \E id \in {0, 1} :
       \E r \in {read_byte(Machine(cpu, ppu, memory, overflow_checks), \h4016 + id, FALSE)} :
          /\ hist.reads[id] < MaxReads
          /\ ppu' = r.s.ppu
          /\ memory' = r.s.memory
          /\ panicked' = r.s.panic
          /\ hist' = [hist EXCEPT !.op = "read", !.port = id, !.value = r.value,
                                  !.reads[id] = @ + 1,
                                  !.before = memory]
    /\ UNCHANGED <<cpu, i, frame, overflow_checks, mode>>

NextPad ==
    \/ HostKeys
    \/ PadWrite
    \/ PadRead

PadSpec == InitPad /\ [][NextPad]_vars

\* C15: a write to 0x4016 / 0x4017 copies external[0] / external[1] into the
\* matching shift register and leaves the other one alone; the k-th read of
\* the port after it (k = 1..8) returns bit 8-k of the byte latched by the
\* write, A first and Right last, every later read returns 0, and what the
\* host does to external[] after the write shows only after the next write.
C15_ControllerProtocol ==
    /\ panicked = ""
    /\ hist.op = "write" =>
           /\ memory.internal_controller[hist.port] = hist.before.controller[hist.port]
           /\ memory.internal_controller[1 - hist.port]
                  = hist.before.internal_controller[1 - hist.port]
    /\ hist.op = "keys" =>
           memory.internal_controller = hist.before.internal_controller
    /\ (hist.op = "read" /\ hist.strobed[hist.port]) =>
           /\ hist.value = IF hist.reads[hist.port] <= 8
                                  /\ Keys[hist.reads[hist.port]] \in hist.latched[hist.port]
                           THEN 1 ELSE 0
           /\ memory.internal_controller[1 - hist.port]
                  = hist.before.internal_controller[1 - hist.port]

\* the eighth read after a write returns Right as it was held at the write,
\* though the host has since reported other keys
C15_Witness ==
    /\ hist.op = "read" /\ hist.port = 0 /\ hist.strobed[0]
    /\ hist.reads[0] = 8
    /\ hist.latched[0] = {"Z", "Right"}
    /\ hist.pressed = {"X", "A", "Up", "Left"}
    /\ hist.value = 1

(***************************************************************************)
(* The PPU address space on its own: MaxVramOps calls of                   *)
(* Ppu::write_byte_from_ppu and writes of PPUMASK, with either mirroring   *)
(* in the ROM header.  Ppu::read_byte_from_ppu changes nothing, so what a  *)
(* read returns is a function of the state.                                *)
(***************************************************************************)
MaxVramOps == 3

PaletteAddresses == {\h3f00, \h3f10, \h3f04, \h3f14, \h3f0c, \h3f1c, \h3f01, \h3f11, \h3ff0}
NameTableOffsets == {\h005, \h3ff}
NameTableAddresses ==
    {\h2000 + (q * \h400) + k : q \in 0 .. 3, k \in NameTableOffsets} \cup {\h3005, \h3c05}
VramValues == {\h2a, \hd5}
MaskValues == {\h00, \h01}

InitVram ==
    /\ mode = "vram"
    /\ overflow_checks = TRUE
    /\ \E vertical \in BOOLEAN :
          memory = [MemoryDefault("dma3") EXCEPT !.rom_header.vertical_mirroring = vertical]
    /\ cpu = CpuFromMemory(PpuDefault, MemoryDefault("dma3"))
    /\ ppu = PpuDefault
    /\ i = 0
    /\ frame = 0
    /\ panicked = ""
    /\ hist = [count |-> 0, op |-> "none", address |-> 0, value |-> 0, before |-> ppu]

VramWrite ==
    /\ mode = "vram"
    /\ panicked = ""
    /\ hist.count < MaxVramOps
    /\ \E address \in PaletteAddresses \cup NameTableAddresses, value \in VramValues :
       \E t \in {write_byte_from_ppu(Machine(cpu, ppu, memory, overflow_checks),
                                     address, value)} :
          /\ ppu' = t.ppu
          /\ memory' = t.memory
          /\ panicked' = t.panic
          /\ hist' = [count |-> hist.count + 1, op |-> "write", address |-> address,
                      value |-> value, before |-> ppu]
    /\ UNCHANGED <<cpu, i, frame, overflow_checks, mode>>

MaskWrite ==
    /\ mode = "vram"
    /\ panicked = ""
    /\ hist.count < MaxVramOps
    /\ \E value \in MaskValues :
       \E t \in {write_byte(Machine(cpu, ppu, memory, overflow_checks), \h2001, value)} :
          /\ ppu' = t.ppu
          /\ memory' = t.memory
          /\ panicked' = t.panic
          /\ hist' = [count |-> hist.count + 1, op |-> "mask", address |-> \h2001,
                      value |-> value, before |-> ppu]
    /\ UNCHANGED <<cpu, i, frame, overflow_checks, mode>>

NextVram ==
    \/ VramWrite
    \/ MaskWrite

VramSpec == InitVram /\ [][NextVram]_vars

(***************************************************************************)
(* Properties of the PPU address space (specification VramSpec)            *)
(***************************************************************************)
\* what a read of `address` returns with the PPU in state p
VramAt(p, address) ==
    read_byte_from_ppu(Machine(cpu, p, memory, overflow_checks), address)

\* x under the greyscale mask that PPUMASK selects now
UnderMask(x) == IF Contains(ppu.ppu_mask, GREYSCALE) THEN Greyscale(x) ELSE x % 64

\* the mirrored palette entries and the entries they mirror
PalettePairs == { <<\h3f10, \h3f00>>, <<\h3f14, \h3f04>>, <<\h3f18, \h3f08>>,
                  <<\h3f1c, \h3f0c>> }

InPalettePair(address) ==
    \E pair \in PalettePairs : address % 32 = pair[1] % 32 \/ address % 32 = pair[2] % 32

\* C16: a write to either address of a pair (0x3F10,0x3F00), (0x3F14,0x3F04),
\* (0x3F18,0x3F08), (0x3F1C,0x3F0C) is what a read of the other returns, under
\* the greyscale mask; palette addresses repeat modulo 32 over 0x3F00..0x3FFF;
\* a write to any other palette address leaves these entries as they were.
C16_PaletteMirrors ==
    /\ panicked = ""
    /\ \A pair \in PalettePairs :
           /\ VramAt(ppu, pair[1]) = VramAt(ppu, pair[2])
           /\ (hist.op = "write" /\ hist.address \in {pair[1], pair[2]}) =>
                  /\ VramAt(ppu, pair[1]) = UnderMask(hist.value)
                  /\ VramAt(ppu, pair[2]) = UnderMask(hist.value)
           /\ (hist.op = "write" /\ hist.address >= \h3f00 /\ ~InPalettePair(hist.address)) =>
                  /\ VramAt(ppu, pair[1]) = VramAt(hist.before, pair[1])
                  /\ VramAt(ppu, pair[2]) = VramAt(hist.before, pair[2])
    /\ \A address \in PaletteAddresses, rep \in 0 .. 7 :
           VramAt(ppu, \h3f00 + (rep * 32) + (address % 32)) = VramAt(ppu, address)

\* a write of 0x2A to 0x3F10 read back at 0x3F00, which held 0xD5 & 0x3F
C16_Witness ==
    /\ hist.op = "write" /\ hist.address = \h3f10 /\ hist.value = \h2a
    /\ VramAt(hist.before, \h3f00) = \h15
    /\ VramAt(ppu, \h3f00) = \h2a
    /\ VramAt(ppu, \h3f01) = \h15

\* the logical name table (0..3) of a name-table address, and the one the
\* mirroring makes equal to it: 0x2000 = 0x2800 and 0x2400 = 0x2C00 when
\* vertical, 0x2000 = 0x2400 and 0x2800 = 0x2C00 when horizontal
Quadrant(address) == (address % 4096) \div 1024

Partner(q) ==
    IF memory.rom_header.vertical_mirroring THEN (q + 2) % 4
    ELSE (IF q % 2 = 0 THEN q + 1 ELSE q - 1)

QuadrantAddress(q, k) == \h2000 + (q * \h400) + k

\* C17: with vertical mirroring reads at 0x2000+k and 0x2800+k, and at
\* 0x2400+k and 0x2C00+k, return the same value after any writes; with
\* horizontal mirroring the equal pairs are (0x2000+k, 0x2400+k) and
\* (0x2800+k, 0x2C00+k); a write to one physical bank never shows in the other.
C17_NameTableMirrors ==
    /\ panicked = ""
    /\ \A q \in 0 .. 3, k \in NameTableOffsets :
           VramAt(ppu, QuadrantAddress(q, k)) = VramAt(ppu, QuadrantAddress(Partner(q), k))
    /\ (hist.op = "write" /\ hist.address >= \h2000 /\ hist.address <= \h3eff) =>
           /\ VramAt(ppu, hist.address) = hist.value
           /\ VramAt(ppu, QuadrantAddress(Partner(Quadrant(hist.address)),
                                          hist.address % 1024)) = hist.value
           /\ \A q \in 0 .. 3, k \in NameTableOffsets :
                  (q # Quadrant(hist.address) /\ q # Partner(Quadrant(hist.address))) =>
                      VramAt(ppu, QuadrantAddress(q, k))
                          = VramAt(hist.before, QuadrantAddress(q, k))

\* vertical mirroring: 0x2A written at 0x2805 shows at 0x2005, and 0x2405
\* keeps the 0xD5 written there before
C17_Witness ==
    /\ memory.rom_header.vertical_mirroring
    /\ hist.op = "write" /\ hist.address = \h2805 /\ hist.value = \h2a
    /\ VramAt(hist.before, \h2005) = 0
    /\ VramAt(ppu, \h2005) = \h2a
    /\ VramAt(ppu, \h2405) = \hd5
    /\ VramAt(ppu, \h2c05) = \hd5

(***************************************************************************)
(* The interpreter on its own: Cpu::execute (cpu.rs 223-619) and           *)
(* Cpu::on_non_maskable_interrupt (cpu.rs 71-90) called on a CPU whose     *)
(* program has been copied to RAM at 0x0400.  The registers, the stack and *)
(* the data the program works on are drawn from the sets below; the        *)
(* cartridge is "ram7"; the build has overflow checks or has none.         *)
(***************************************************************************)
\* instructions and interrupt entries in a run
MaxCpuSteps == 2

ProgramAt == \h0400
ReturnAt == \h0410

\* RAM cells that hold data, and what they hold
DataCells == {\h00, \h01, \hff, \h100, \h200, \h280, \h281, \h2ff, \h300, \h700, \h7ff}
DataFill(k) == ((k % 256) + (3 * (k \div 256)) + 17) % 256

\* RAM with the program at ProgramAt, NOPs after it, a PHP at ReturnAt, the
\* data cells, and the given cells on top
RamWith(code, cells) ==
    [k \in DataCells \cup (ProgramAt .. (ProgramAt + 7)) \cup {ReturnAt} \cup DOMAIN cells |->
        IF k \in DOMAIN cells THEN cells[k]
        ELSE IF k = ReturnAt THEN \h08
        ELSE IF k >= ProgramAt /\ k < ProgramAt + Len(code) THEN code[k - ProgramAt + 1]
        ELSE IF k >= ProgramAt /\ k <= ProgramAt + 7 THEN \hEA
        ELSE DataFill(k)]

CpuCase(code, a, sp, flags, cells) ==
    [code |-> code, a |-> a, sp |-> sp, flags |-> flags, cells |-> cells]

\* JMP (ptr)
Pointers == {\h0200, \h0280, \h02ff, \h00ff, \h07ff, \h80ff, \hc010, \hffff}
JmpCases ==
    {CpuCase(<< \h6C, ptr % 256, ptr \div 256 >>, 0, \hfd, \h34, Empty) : ptr \in Pointers}

\* PHA / PLA, and PLA alone
Bytes == {\h00, \h01, \h40, \h55, \h7f, \h80, \h81, \haa, \hff}
Sps == {\hfd, \h80, \h01, \h00, \hff}
StackCases ==
    {CpuCase(code, b, sp, flags, Empty) :
        code \in {<< \h48, \h68 >>, << \h68 >>}, b \in Bytes, sp \in Sps, flags \in {\h34, \hb6}}

\* PLP / PHP, RTI (to the PHP at ReturnAt) and PHP alone, the stack holding
\* a flags byte and the address ReturnAt
FlagBytes == {\h00, \h10, \h20, \hcf, \hff}
FlagCases ==
    {CpuCase(code, 0, \hf0, flags,
             Put(Put(Put(Empty, \h1f1, byte), \h1f2, ReturnAt % 256), \h1f3, ReturnAt \div 256)) :
        code \in {<< \h28, \h08 >>, << \h40 >>, << \h08 >>},
        byte \in FlagBytes, flags \in {\h34, \h00, \hff}}

\* ASL m / LSR m on a zero-page and on an absolute location
ShiftAt(code) == IF code[1] = \h06 THEN code[2] ELSE code[2] + (code[3] * 256)
ShiftCases ==
    {CpuCase(code, 0, \hfd, flags, Put(Empty, ShiftAt(code), b)) :
        code \in {<< \h06, \h10, \h46, \h10 >>, << \h0E, \h00, \h03, \h4E, \h00, \h03 >>},
        b \in Bytes, flags \in {\h34, \h35}}

\* ADC #arg and SBC #arg
AluBytes == {\h00, \h01, \h02, \h10, \h3f, \h40, \h55, \h7e, \h7f, \h80, \h81, \haa,
             \hbf, \hc0, \hfe, \hff}
AluCases ==
    {CpuCase(<< opcode, arg >>, a, \hfd, flags, Empty) :
        opcode \in {\h69, \hE9}, arg \in AluBytes, a \in AluBytes, flags \in {\h34, \h35}}

CpuCases == JmpCases \cup StackCases \cup FlagCases \cup ShiftCases \cup AluCases

\* History of a run of the interpreter.
\*   start   the CPU and the memory before the first step
\*   before  the CPU and the memory before the last step
\*   ops     the opcodes of the instructions executed, in order
\*   nmis    the number of NMI entries made
\*   last    what the last step was: "instruction", "nmi", or "" before any

InitCpu ==
    /\ mode = "cpu"
    /\ overflow_checks \in BOOLEAN
    /\ ppu = PpuDefault
    /\ \E case \in CpuCases :
          /\ memory = [MemoryDefault("ram7") EXCEPT !.ram = RamWith(case.code, case.cells)]
          /\ cpu = [CpuFromMemory(PpuDefault, MemoryDefault("ram7"))
                       EXCEPT !.pc = ProgramAt, !.a = case.a, !.sp = case.sp,
                              !.flags = case.flags, !.cycles = 0]
    /\ i = 0
    /\ frame = 0
    /\ panicked = ""
    /\ hist = [start |-> [cpu |-> cpu, memory |-> memory],
               before |-> [cpu |-> cpu, memory |-> memory],
               ops |-> << >>, nmis |-> 0, last |-> ""]

\* Cpu::execute runs the instruction at pc
CpuInstruction ==
    /\ mode = "cpu"
    /\ panicked = ""
    /\ Len(hist.ops) + hist.nmis < MaxCpuSteps
    /\ \E t \in {execute(Machine(cpu, ppu, memory, overflow_checks))} :
          /\ cpu' = t.cpu
          /\ ppu' = t.ppu
          /\ memory' = t.memory
          /\ panicked' = t.panic
    /\ hist' = [hist EXCEPT !.before = [cpu |-> cpu, memory |-> memory],
                            !.ops = Append(@, RamAt(memory, cpu.pc % 2048)),
                            !.last = "instruction"]
    /\ UNCHANGED <<i, frame, overflow_checks, mode>>

\* Cpu::on_non_maskable_interrupt is called between two instructions
CpuInterrupt ==
    /\ mode = "cpu"
    /\ panicked = ""
    /\ Len(hist.ops) + hist.nmis < MaxCpuSteps
    /\ hist.nmis = 0
    /\ \E t \in {on_non_maskable_interrupt(Machine(cpu, ppu, memory, overflow_checks))} :
          /\ cpu' = t.cpu
          /\ ppu' = t.ppu
          /\ memory' = t.memory
          /\ panicked' = t.panic
    /\ hist' = [hist EXCEPT !.before = [cpu |-> cpu, memory |-> memory],
                            !.nmis = @ + 1,
                            !.last = "nmi"]
    /\ UNCHANGED <<i, frame, overflow_checks, mode>>

NextCpu ==
    \/ CpuInstruction
    \/ CpuInterrupt

CpuSpec == InitCpu /\ [][NextCpu]_vars

(***************************************************************************)
(* Properties of the interpreter (specification CpuSpec)                   *)
(***************************************************************************)
\* the byte the bus returns at a CPU address of the memory m (RAM or ROM)
ByteAt(m, address) ==
    read_byte(Machine(cpu, PpuDefault, m, FALSE), address, FALSE).value

\* the operand word of the instruction the last step ran
LastOperandWord ==
    ByteAt(hist.before.memory, hist.before.cpu.pc + 1)
        + (256 * ByteAt(hist.before.memory, hist.before.cpu.pc + 2))

\* the opcode of the last step, or -1 when it was not an instruction
LastCpuOp == IF hist.last = "instruction" THEN hist.ops[Len(hist.ops)] ELSE -1

\* C21: after JMP (ptr) the pc is the word whose low byte is the byte at ptr
\* and whose high byte is the byte at ptr + 1, or, when ptr ends in 0xff, the
\* byte at the start of ptr's page.
C21_IndirectJump ==
    (LastCpuOp = \h6C /\ panicked = "") =>
        LET ptr == LastOperandWord
        IN  cpu.pc = ByteAt(hist.before.memory, ptr)
                       + (256 * ByteAt(hist.before.memory,
                                       IF ptr % 256 = 255 THEN ptr - 255 ELSE ptr + 1))

\* JMP ($02FF) has gone to the address made of the bytes at 0x02ff and
\* 0x0200, which is not the one made of the bytes at 0x02ff and 0x0300
C21_Witness ==
    /\ LastCpuOp = \h6C /\ panicked = ""
    /\ LastOperandWord = \h02ff
    /\ cpu.pc = DataFill(\h2ff) + (256 * DataFill(\h200))
    /\ cpu.pc # DataFill(\h2ff) + (256 * DataFill(\h300))

\* the byte on the stack at 0x0100 + sp
StackByte(m, sp) == RamAt(m, \h100 + (sp % 256))

\* C24: the flags byte that PHP pushes has U and B set, and the flags byte
\* that an NMI entry pushes has U set and B clear, whatever the flags
\* register holds.
C24_PushedFlags ==
    /\ (LastCpuOp = \h08 /\ panicked = "") =>
           /\ Contains(StackByte(memory, hist.before.cpu.sp), U_FLAG)
           /\ Contains(StackByte(memory, hist.before.cpu.sp), B_FLAG)
    /\ (hist.last = "nmi" /\ panicked = "") =>
           /\ Contains(StackByte(memory, hist.before.cpu.sp + 254), U_FLAG)
           /\ ~Contains(StackByte(memory, hist.before.cpu.sp + 254), B_FLAG)

\* PLP has loaded 0x00 into the flags, and the PHP after it has pushed 0x30
C24_Witness ==
    /\ hist.nmis = 0 /\ hist.ops = << \h28, \h08 >> /\ panicked = ""
    /\ hist.before.cpu.flags = 0
    /\ StackByte(memory, hist.before.cpu.sp) = \h30

\* RTI has loaded 0xCF into the flags, and the NMI entry after it has pushed
\* 0xEF
C24_WitnessNmi ==
    /\ hist.ops = << \h40 >> /\ hist.last = "nmi" /\ panicked = ""
    /\ hist.before.cpu.flags = \hcf
    /\ StackByte(memory, hist.before.cpu.sp + 254) = \hef

\* C25: PHA stores A at 0x0100 + sp and leaves sp one lower, modulo 256;
\* PLA after it leaves A and sp as they were before the PHA and sets Z and N
\* from A; PLA on its own reads the byte at 0x0100 + (sp + 1) modulo 256 and
\* leaves sp one higher, modulo 256.
C25_StackRoundTrip ==
    LET a  == hist.start.cpu.a
        sp == hist.start.cpu.sp
    IN  /\ hist.nmis = 0 /\ hist.ops = << \h48 >> =>
               /\ StackByte(memory, sp) = a
               /\ cpu.sp = (sp + 255) % 256
        /\ hist.nmis = 0 /\ hist.ops = << \h48, \h68 >> =>
               /\ cpu.a = a
               /\ cpu.sp = sp
               /\ Contains(cpu.flags, ZERO) = (a = 0)
               /\ Contains(cpu.flags, NEGATIVE) = (a >= 128)
        /\ hist.nmis = 0 /\ hist.ops = << \h68 >> =>
               /\ cpu.a = StackByte(hist.start.memory, sp + 1)
               /\ cpu.sp = (sp + 1) % 256

\* the location the first instruction of the program works on, and the
\* byte it held before the run
ShiftLocation ==
    IF RamAt(hist.start.memory, ProgramAt) = \h06
    THEN RamAt(hist.start.memory, ProgramAt + 1)
    ELSE RamAt(hist.start.memory, ProgramAt + 1)
             + (256 * RamAt(hist.start.memory, ProgramAt + 2))

ShiftByte == RamAt(hist.start.memory, ShiftLocation)

AslThenLsr == hist.nmis = 0 /\ hist.ops \in {<< \h06, \h46 >>, << \h0E, \h4E >>} /\ panicked = ""

\* C26 as stated: after ASL m / LSR m the location holds b & 0x7f and Carry is
\* bit 7 of b, the byte it held before.
C26_CarryIsBitSeven ==
    AslThenLsr =>
        /\ RamAt(memory, ShiftLocation) = ShiftByte % 128
        /\ Contains(cpu.flags, CARRY) = (ShiftByte >= 128)

\* C26: after ASL m the location holds the low byte of 2 * b and Carry is bit
\* 7 of b; after the LSR m that follows, the location holds b & 0x7f, and
\* Carry and Negative are clear.
C26_AslLsr ==
    /\ (hist.nmis = 0 /\ hist.ops \in {<< \h06 >>, << \h0E >>} /\ panicked = "") =>
           /\ RamAt(memory, ShiftLocation) = (2 * ShiftByte) % 256
           /\ Contains(cpu.flags, CARRY) = (ShiftByte >= 128)
    /\ AslThenLsr =>
           /\ RamAt(memory, ShiftLocation) = ShiftByte % 128
           /\ ~Contains(cpu.flags, CARRY)
           /\ ~Contains(cpu.flags, NEGATIVE)

\* ASL $10 / LSR $10 on the byte 0x81: the location holds 0x01, Carry is clear
C26_Witness ==
    /\ hist.nmis = 0 /\ hist.ops = << \h06, \h46 >> /\ panicked = ""
    /\ ShiftLocation = \h10 /\ ShiftByte = \h81
    /\ RamAt(memory, \h10) = \h01
    /\ ~Contains(cpu.flags, CARRY)

\* what an addition of a, arg and the carry c leaves in the accumulator and
\* in the flags C, Z, V and N: V is set when a and arg have the same sign
\* bit and the sum has the other
Added(a, arg, c) ==
    LET r == a + arg + c
    IN  [ a |-> r % 256,
          C |-> r > 255,
          Z |-> r % 256 = 0,
          V |-> ((a >= 128) = (arg >= 128)) /\ ((a >= 128) # (r % 256 >= 128)),
          N |-> r % 256 >= 128 ]

\* the accumulator and the flags C, Z, V and N of a CPU
AluState(c) ==
    [ a |-> c.a,
      C |-> Contains(c.flags, CARRY),
      Z |-> Contains(c.flags, ZERO),
      V |-> Contains(c.flags, OVERFLOW),
      N |-> Contains(c.flags, NEGATIVE) ]

\* the immediate argument of the first instruction, and the carry before it
AluArgument == RamAt(hist.start.memory, ProgramAt + 1)
CarryIn == IF Contains(hist.start.cpu.flags, CARRY) THEN 1 ELSE 0

\* C27: ADC #arg leaves the sum of a, arg and the carry in the accumulator and
\* in C, Z, V and N; SBC #arg leaves what ADC of arg XOR 0xff (255 - arg)
\* leaves.
C27_SbcIsAdc ==
    /\ (hist.nmis = 0 /\ hist.ops = << \h69 >> /\ panicked = "") =>
           AluState(cpu) = Added(hist.start.cpu.a, AluArgument, CarryIn)
    /\ (hist.nmis = 0 /\ hist.ops = << \hE9 >> /\ panicked = "") =>
           AluState(cpu) = Added(hist.start.cpu.a, 255 - AluArgument, CarryIn)

\* SBC #$01 with a = 0x80 and the carry set: a = 0x7f, with C and V set
C27_Witness ==
    /\ hist.nmis = 0 /\ hist.ops = << \hE9 >> /\ panicked = ""
    /\ hist.start.cpu.a = \h80 /\ AluArgument = \h01 /\ CarryIn = 1
    /\ cpu.a = \h7f
    /\ Contains(cpu.flags, CARRY) /\ Contains(cpu.flags, OVERFLOW)
    /\ ~Contains(cpu.flags, NEGATIVE) /\ ~Contains(cpu.flags, ZERO)

(***************************************************************************)
(* Construction on its own: Cpu::from_memory (cpu.rs 45-64) called on the  *)
(* memory of a cartridge of 16 or of 32 KiB whose reset vector is drawn    *)
(* from the set below.  Until the call there is no CPU: NoCpu stands for   *)
(* it.                                                                     *)
(***************************************************************************)
VectorBytes == {\h00, \h01, \h12, \h34, \h7f, \h80, \hc0, \hff}

NoCpu == [pc |-> -1, flags |-> -1, sp |-> -1, a |-> -1, x |-> -1, y |-> -1, cycles |-> -1]

InitReset ==
    /\ mode = "reset"
    /\ overflow_checks = TRUE
    /\ ppu = PpuDefault
    /\ cpu = NoCpu
    /\ \E rom \in {"dma3", "ram7"}, low \in VectorBytes, high \in VectorBytes :
          /\ memory = [MemoryDefault(rom) EXCEPT
                          !.pgr_rom = Put(Put(Empty, PgrSize(rom) - 4, low),
                                          PgrSize(rom) - 3, high)]
          /\ hist = [done |-> FALSE, low |-> low, high |-> high]
    /\ i = 0
    /\ frame = 0
    /\ panicked = ""

\* main.rs 65
Reset ==
    /\ mode = "reset"
    /\ ~hist.done
    /\ cpu' = CpuFromMemory(ppu, memory)
    /\ hist' = [hist EXCEPT !.done = TRUE]
    /\ UNCHANGED <<ppu, memory, i, frame, panicked, overflow_checks, mode>>

NextReset == Reset

ResetSpec == InitReset /\ [][NextReset]_vars

\* C22: the CPU is constructed with pc the little-endian word of the image's
\* last-but-two pair of bytes (CPU addresses 0xfffc and 0xfffd), sp = 0xfd,
\* flags = 0x34, a = x = y = 0 and cycles = 7.
C22_ResetState ==
    hist.done =>
        /\ cpu.pc = hist.low + (256 * hist.high)
        /\ cpu.sp = \hfd
        /\ cpu.flags = \h34
        /\ cpu.a = 0 /\ cpu.x = 0 /\ cpu.y = 0
        /\ cpu.cycles = 7

\* a 16 KiB image with the bytes 34 12 at its offset 0x3ffc starts at 0x1234
C22_Witness ==
    /\ hist.done
    /\ memory.rom_header.pgr_size = \h4000
    /\ hist.low = \h34 /\ hist.high = \h12
    /\ cpu.pc = \h1234 /\ cpu.flags = \h34 /\ cpu.cycles = 7

(***************************************************************************)
(* One instruction at a time: Cpu::execute (cpu.rs 223-619) on a CPU whose *)
(* program has been copied to RAM at 0x0400, for the stores in all their   *)
(* addressing modes and for the instructions whose cost depends on a page  *)
(* crossing or on a branch.  The PPU is one tick into VBLANK; the CPU has  *)
(* written 0x77 to VRAM 0x2000, set v back to 0x2000 and made one PPUSCROLL *)
(* write, so that the write latch is set and the read buffer does not hold *)
(* the byte at v.  Each controller was strobed with 0xa5 and read once.    *)
(***************************************************************************)
\* instructions in a run
MaxInstructions == 1

\* the register writes made before the run
Prelude(control) ==
    << << \h2006, \h20 >>, << \h2006, \h00 >>, << \h2007, \h77 >>,
       << \h2006, \h20 >>, << \h2006, \h00 >>, << \h2005, \h00 >>,
       << \h2000, control >> >>

RECURSIVE AfterWrites(_, _, _)
AfterWrites(s, writes, k) ==
    IF k > Len(writes) THEN s
    ELSE AfterWrites(write_byte(s, writes[k][1], writes[k][2]), writes, k + 1)

\* a case: the instruction, the registers, the RAM cells set for it, the
\* address the operand is resolved from and the address it resolves to
StepCase(code, a, x, y, flags, cells, base, target) ==
    [code |-> code, a |-> a, x |-> x, y |-> y, flags |-> flags, cells |-> cells,
     base |-> base, target |-> target]

LowByte(n) == n % 256
HighByte(n) == n \div 256

\* where the stores go: PPUDATA, PPUSTATUS, the first controller port, RAM
StoreTargets == {\h2007, \h2002, \h4016, \h0300}
Indexes == {\h01, \h10}

\* STA / STX / STY abs; STA abs,X; STA abs,Y; STA (zp,X); STA (zp),Y
StoreCases ==
    {StepCase(<< opcode, LowByte(t), HighByte(t) >>, \h11, \h22, \h33, \h34, Empty, t, t) :
        opcode \in {\h8D, \h8E, \h8C}, t \in StoreTargets}
    \cup
    {StepCase(<< \h9D, LowByte(t - k), HighByte(t - k) >>, \h11, k, \h33, \h34, Empty, t - k, t) :
        k \in Indexes, t \in StoreTargets}
    \cup
    {StepCase(<< \h99, LowByte(t - k), HighByte(t - k) >>, \h11, \h22, k, \h34, Empty, t - k, t) :
        k \in Indexes, t \in StoreTargets}
    \cup
    {StepCase(<< \h81, \h40 >>, \h11, \h04, \h33, \h34,
              Put(Put(Empty, \h44, LowByte(t)), \h45, HighByte(t)), t, t) :
        t \in StoreTargets}
    \cup
    {StepCase(<< \h91, \h40 >>, \h11, \h22, k, \h34,
              Put(Put(Empty, \h40, LowByte(t - k)), \h41, HighByte(t - k)), t - k, t) :
        k \in Indexes, t \in StoreTargets}

\* STA / STX / STY zp; STA / STY zp,X; STX zp,Y (the sum wraps in the page)
ZeroPageStoreCases ==
    {StepCase(<< opcode, \h80 >>, \h11, \h22, \h33, \h34, Empty, \h80, \h80) :
        opcode \in {\h85, \h86, \h84}}
    \cup
    {StepCase(<< opcode, \h80 >>, \h11, \h90, \h33, \h34, Empty, \h80, \h10) :
        opcode \in {\h95, \h94}}
    \cup
    {StepCase(<< \h96, \h80 >>, \h11, \h22, \h90, \h34, Empty, \h80, \h10)}

\* offsets that stay in the page (0x05) and that leave it (0x20)
Offsets == {\h05, \h20}
IndexedBase == \h02f0

\* LDA / ADC / CMP / IGN / ASL abs,X; LDA / LDX abs,Y; LDA (zp),Y; stores
\* to RAM with the same modes; LDA abs and LDA #
IndexedCases ==
    {StepCase(<< opcode, LowByte(IndexedBase), HighByte(IndexedBase) >>, \h11, k, \h33, \h34,
              Empty, IndexedBase, IndexedBase + k) :
        opcode \in {\hBD, \h7D, \hDD, \h1C, \h1E, \h9D}, k \in Offsets}
    \cup
    {StepCase(<< opcode, LowByte(IndexedBase), HighByte(IndexedBase) >>, \h11, \h22, k, \h34,
              Empty, IndexedBase, IndexedBase + k) :
        opcode \in {\hB9, \hBE, \h99}, k \in Offsets}
    \cup
    {StepCase(<< opcode, \h40 >>, \h11, \h22, k, \h34,
              Put(Put(Empty, \h40, LowByte(IndexedBase)), \h41, HighByte(IndexedBase)),
              IndexedBase, IndexedBase + k) :
        opcode \in {\hB1, \h91}, k \in Offsets}
    \cup
    {StepCase(<< \hAD, \h00, \h03 >>, \h11, \h22, \h33, \h34, Empty, \h0300, \h0300),
     StepCase(<< \hA9, \h7f >>, \h11, \h22, \h33, \h34, Empty, 0, 0)}

\* BNE / BEQ with Z clear and set: forward in the page, to its end, and back
\* into the page before
BranchOffsets == {\h05, \h7f, \hfb}
BranchTarget(offset) ==
    ProgramAt + 2 + (IF offset >= 128 THEN offset - 256 ELSE offset)
BranchCases ==
    {StepCase(<< opcode, offset >>, \h11, \h22, \h33, flags, Empty,
              ProgramAt + 2, BranchTarget(offset)) :
        opcode \in {\hD0, \hF0}, offset \in BranchOffsets, flags \in {\h34, \h36}}

StepCases == StoreCases \cup ZeroPageStoreCases \cup IndexedCases \cup BranchCases

\* History of a run.
\*   case    the case of the run
\*   steps   the instructions executed
\*   before  the CPU, the PPU and the memory before the last of them
InitStep ==
    /\ mode = "step"
    /\ overflow_checks = TRUE
    /\ i = 0
    /\ frame = 0
    /\ panicked = ""
    /\ \E case \in StepCases, control \in {\h00, \h04} :
       \E c \in {[CpuFromMemory(PpuDefault, MemoryDefault("ram7"))
                     EXCEPT !.pc = ProgramAt, !.a = case.a, !.x = case.x, !.y = case.y,
                            !.flags = case.flags, !.cycles = 0]} :
       \E m \in {[MemoryDefault("ram7") EXCEPT
                     !.ram = RamWith(case.code, case.cells),
                     !.controller = [id \in {0, 1} |-> \ha5],
                     !.internal_controller = [id \in {0, 1} |-> \h4a]]} :
       \E s \in {AfterWrites(ppu_execute(Machine(c, PpuIdle, m, TRUE)), Prelude(control), 1)} :
          /\ cpu = c
          /\ ppu = s.ppu
          /\ memory = s.memory
          /\ hist = [case |-> case, steps |-> 0,
                     before |-> [cpu |-> c, ppu |-> s.ppu, memory |-> s.memory]]

\* Cpu::execute runs the instruction at pc
StepInstruction ==
    /\ mode = "step"
    /\ panicked = ""
    /\ hist.steps < MaxInstructions
    /\ \E t \in {execute(Machine(cpu, ppu, memory, overflow_checks))} :
          /\ cpu' = t.cpu
          /\ ppu' = t.ppu
          /\ memory' = t.memory
          /\ panicked' = t.panic
    /\ hist' = [hist EXCEPT !.steps = @ + 1,
                            !.before = [cpu |-> cpu, ppu |-> ppu, memory |-> memory]]
    /\ UNCHANGED <<i, frame, overflow_checks, mode>>

NextStep == StepInstruction

StepSpec == InitStep /\ [][NextStep]_vars

(***************************************************************************)
(* Properties of single instructions (specification StepSpec)              *)
(***************************************************************************)
\* the decode-table row of the instruction of the run
CaseRow == INSTRUCTIONS(hist.case.code[1])

\* the one instruction of the run has been executed and it is a store
Stored == hist.steps = 1 /\ CaseRow.operation \in {"STA", "STX", "STY"}

\* the register the store writes
StoredValue ==
    IF CaseRow.operation = "STA" THEN hist.case.a
    ELSE IF CaseRow.operation = "STX" THEN hist.case.x
    ELSE hist.case.y

\* C32: a store makes no read of the address it resolves to: a store to
\* 0x2007 writes the register to VRAM at v, leaves the read buffer as it was
\* and advances v once; no store clears VBLANK or the write latch or shifts
\* a controller register; the operand is resolved once, so the pc ends just
\* past the instruction.
C32_StoresDoNotRead ==
    Stored =>
        /\ cpu.pc = ProgramAt + Len(hist.case.code)
        /\ ppu.ppu_status = hist.before.ppu.ppu_status
        /\ ppu.address_latch = hist.before.ppu.address_latch
        /\ memory.internal_controller[1] = hist.before.memory.internal_controller[1]
        /\ hist.case.target # \h4016 =>
               memory.internal_controller[0] = hist.before.memory.internal_controller[0]
        /\ hist.case.target = \h2007 =>
               /\ ppu.data_buffer = hist.before.ppu.data_buffer
               /\ ppu.ppu_address = hist.before.ppu.ppu_address
                                       + WriteIncrement(hist.before.ppu.ppu_control)
               /\ PpuMemoryAt(hist.before.ppu.ppu_address) = StoredValue
        /\ hist.case.target # \h2007 =>
               /\ ppu.data_buffer = hist.before.ppu.data_buffer
               /\ ppu.ppu_address = hist.before.ppu.ppu_address
        /\ hist.case.target < \h0800 => RamAt(memory, hist.case.target) = StoredValue

\* STA (zp),Y has resolved to 0x2007 with PPUCTRL = 0x04: VRAM 0x2000 holds
\* A, v is 0x2020, and the read buffer, the latch and VBLANK are untouched
C32_Witness ==
    /\ Stored /\ panicked = ""
    /\ hist.case.code[1] = \h91 /\ hist.case.target = \h2007
    /\ hist.before.ppu.ppu_address = \h2000 /\ ppu.ppu_address = \h2020
    /\ PpuMemoryAt(\h2000) = \h11
    /\ ppu.data_buffer = 0
    /\ ppu.address_latch /\ Contains(ppu.ppu_status, V_BLANK)

\* the operations the statement lists as able to cost an extra cycle: the
\* loads (LAX, which loads A and X, among them), the five arithmetic and
\* logic operations on A, and the compares
ListedFamily ==
    {"LDA", "LDX", "LDY", "LAX", "ADC", "SBC", "AND", "EOR", "ORA", "CMP", "CPX", "CPY"}

\* the operand's page-cross flag, for the modes that have one
PageCrossed ==
    /\ CaseRow.addressing_mode \in {"AbsoluteX", "AbsoluteY", "IndirectY"}
    /\ HighByte(hist.case.base) # HighByte(hist.case.target)

\* the branch of the run is taken
BranchTaken ==
    \/ CaseRow.operation = "BNE" /\ ~Contains(hist.case.flags, ZERO)
    \/ CaseRow.operation = "BEQ" /\ Contains(hist.case.flags, ZERO)

\* the cost the statement gives, with `family` able to cost an extra cycle
StatedCost(family) ==
      CaseRow.cycles
    + (IF CaseRow.operation \in family /\ PageCrossed THEN 1 ELSE 0)
    + (IF BranchTaken
       THEN (IF HighByte(hist.case.target) = HighByte(ProgramAt + 2) THEN 1 ELSE 2)
       ELSE 0)

\* the one instruction of the run has been executed to its end
Timed == hist.steps = 1 /\ panicked = ""

\* C33 as stated: the cycles an instruction adds are the base cost of its
\* row, plus 1 exactly when the operation is a load, ADC, SBC, AND, EOR, ORA,
\* CMP, CPX or CPY and the operand's page-cross flag is set, plus 1 for a branch taken
\* within the page of the pc after the operand and 2 for one taken to
\* another page.
C33_CycleCostAsListed == Timed => cpu.cycles = StatedCost(ListedFamily)

\* C33: the cycles an instruction adds are the base cost of its row, plus 1
\* exactly when the operand's page-cross flag is set and the operation is
\* one of the list or IGN, the no-operation that fetches from memory, plus 1
\* for a branch taken within the page of the pc after the operand and 2 for
\* one taken to another page; stores, read-modify-write operations and
\* branches not taken add the base cost only.
C33_CycleCost == Timed => cpu.cycles = StatedCost(ListedFamily \cup {"IGN"})

\* IGN abs,X from 0x02f0 with X = 0x20 has crossed a page and cost 5, one
\* more than its row
C33_Witness ==
    /\ Timed /\ PageCrossed
    /\ hist.case.code[1] = \h1C
    /\ cpu.cycles = 5

(***************************************************************************)
(* Reads made for the debugger windows: Memory::read_byte (memory.rs       *)
(* 156-202) called with debugger = true, as draw_gui does (main.rs 358),   *)
(* on a machine whose PPU registers and controller shift register are      *)
(* drawn from the sets below.                                              *)
(***************************************************************************)
\* debugger reads in a run
MaxDebugReads == 2

DebugAddresses == {\h0000, \h07ff, \h2002, \h2004, \h2007, \h4016, \h4017, \h4020, \h8000}
DebugStatus == {\h00, \h80, \he0}
DebugControl == {\h00, \h04}
DebugVram == {\h0000, \h2000, \h3f00}
DebugPads == {\h00, \h80, \ha5}

InitDebug ==
    /\ mode = "debug"
    /\ overflow_checks = TRUE
    /\ cpu = CpuFromMemory(PpuDefault, MemoryDefault("dma3"))
    /\ \E status \in DebugStatus, control \in DebugControl, latch \in BOOLEAN,
          address \in DebugVram, pad \in DebugPads :
          /\ ppu = [PpuIdle EXCEPT !.ppu_status = status, !.ppu_control = control,
                                   !.address_latch = latch, !.ppu_address = address]
          /\ memory = [MemoryDefault("dma3") EXCEPT
                          !.internal_controller = [id \in {0, 1} |-> pad]]
    /\ i = 0
    /\ frame = 0
    /\ panicked = ""
    /\ hist = [reads |-> 0, address |-> -1, before |-> [ppu |-> ppu, memory |-> memory]]

\* memory.read_byte(ppu, address, true)
DebugRead ==
    /\ mode = "debug"
    /\ panicked = ""
    /\ hist.reads < MaxDebugReads
    /\ \E address \in DebugAddresses :
       \E r \in {read_byte(Machine(cpu, ppu, memory, overflow_checks), address, TRUE)} :
          /\ cpu' = r.s.cpu
          /\ ppu' = r.s.ppu
          /\ memory' = r.s.memory
          /\ panicked' = r.s.panic
          /\ hist' = [reads |-> hist.reads + 1, address |-> address,
                      before |-> [ppu |-> ppu, memory |-> memory]]
    /\ UNCHANGED <<i, frame, overflow_checks, mode>>

NextDebug == DebugRead

DebugSpec == InitDebug /\ [][NextDebug]_vars

\* C28: a read with debugger = true leaves the PPU and the memory, the
\* controller shift registers included, as they were, and does not stop the
\* emulator.
C28_DebuggerReads ==
    hist.reads > 0 =>
        /\ ppu = hist.before.ppu
        /\ memory = hist.before.memory
        /\ panicked = ""

(***************************************************************************)
(* The loopy registers: the CPU writes PPUCTRL, PPUSCROLL, PPUADDR and     *)
(* PPUDATA, reads PPUDATA, and the PPU ticks, in any order, MaxLoopyOps    *)
(* operations in all, from the PPU at scanline 241, dot 1 of its first     *)
(* frame.                                                                  *)
(***************************************************************************)
MaxLoopyOps == 5

LoopyBytes == {\h21, \hff}
LoopyControl == {\h00, \h04}

InitLoopy ==
    /\ mode = "loopy"
    /\ overflow_checks = TRUE
    /\ memory = MemoryDefault("ram7")
    /\ cpu = CpuFromMemory(PpuDefault, MemoryDefault("ram7"))
    /\ ppu = PpuIdle
    /\ i = 0
    /\ frame = 0
    /\ panicked = ""
    /\ hist = [ops |-> 0, before |-> PpuIdle]

\* the CPU writes `value` to register `address`
LoopyWrite(address, value) ==
    /\ mode = "loopy"
    /\ panicked = ""
    /\ hist.ops < MaxLoopyOps
    /\ \E t \in {write_byte(Machine(cpu, ppu, memory, overflow_checks), address, value)} :
          /\ ppu' = t.ppu
          /\ memory' = t.memory
          /\ panicked' = t.panic
    /\ hist' = [ops |-> hist.ops + 1, before |-> ppu]
    /\ UNCHANGED <<cpu, i, frame, overflow_checks, mode>>

LoopyWriteControl == \E value \in LoopyControl : LoopyWrite(\h2000, value)
LoopyWriteScroll == \E value \in LoopyBytes : LoopyWrite(\h2005, value)
LoopyWriteAddress == \E value \in LoopyBytes : LoopyWrite(\h2006, value)
LoopyWriteData == LoopyWrite(\h2007, BackdropColour)

\* the CPU reads PPUDATA
LoopyReadData ==
    /\ mode = "loopy"
    /\ panicked = ""
    /\ hist.ops < MaxLoopyOps
    /\ \E r \in {read_byte(Machine(cpu, ppu, memory, overflow_checks), \h2007, FALSE)} :
          /\ ppu' = r.s.ppu
          /\ memory' = r.s.memory
          /\ panicked' = r.s.panic
    /\ hist' = [ops |-> hist.ops + 1, before |-> ppu]
    /\ UNCHANGED <<cpu, i, frame, overflow_checks, mode>>

\* Ppu::execute
LoopyTick ==
    /\ mode = "loopy"
    /\ panicked = ""
    /\ hist.ops < MaxLoopyOps
    /\ \E t \in {ppu_execute(Machine(cpu, ppu, memory, overflow_checks))} :
          /\ ppu' = t.ppu
          /\ memory' = t.memory
          /\ panicked' = t.panic
    /\ hist' = [ops |-> hist.ops + 1, before |-> ppu]
    /\ UNCHANGED <<cpu, i, frame, overflow_checks, mode>>

NextLoopy ==
    \/ LoopyWriteControl
    \/ LoopyWriteScroll
    \/ LoopyWriteAddress
    \/ LoopyWriteData
    \/ LoopyReadData
    \/ LoopyTick

LoopySpec == InitLoopy /\ [][NextLoopy]_vars

\* C34: after any sequence of PPUCTRL, PPUSCROLL, PPUADDR and PPUDATA
\* accesses and PPU ticks, v and t are below 0x8000, and the arithmetic on v
\* does not overflow its storage.
C34_LoopyFifteenBits ==
    /\ ppu.ppu_address < \h8000
    /\ ppu.table_ram_address < \h8000
    /\ panicked # "attempt to add with overflow"

(***************************************************************************)
(* Reads outside the mapped regions: Memory::read_byte (memory.rs 156-202) *)
(* at addresses of the I/O range and of the cartridge range below the ROM, *)
(* in normal mode and as the debugger, MaxMapReads reads in all.           *)
(***************************************************************************)
MaxMapReads == 2

MapAddresses ==
    {\h4000, \h4015, \h4016, \h4018, \h401f, \h4020, \h5000, \h7fff, \h8000}

InitMap ==
    /\ mode = "map"
    /\ overflow_checks = TRUE
    /\ ppu = PpuIdle
    /\ \E rom \in {"dma3", "top"}, pad \in DebugPads :
          /\ cpu = CpuFromMemory(PpuDefault, MemoryDefault(rom))
          /\ memory = [MemoryDefault(rom) EXCEPT
                          !.internal_controller = [id \in {0, 1} |-> pad]]
    /\ i = 0
    /\ frame = 0
    /\ panicked = ""
    /\ hist = [reads |-> 0, address |-> -1, debugger |-> FALSE, value |-> -1,
               before |-> [ppu |-> ppu, memory |-> memory]]

\* memory.read_byte(ppu, address, debugger)
MapRead(debugger) ==
    /\ mode = "map"
    /\ panicked = ""
    /\ hist.reads < MaxMapReads
    /\ \E address \in MapAddresses :
       \E r \in {read_byte(Machine(cpu, ppu, memory, overflow_checks), address, debugger)} :
          /\ cpu' = r.s.cpu
          /\ ppu' = r.s.ppu
          /\ memory' = r.s.memory
          /\ panicked' = r.s.panic
          /\ hist' = [reads |-> hist.reads + 1, address |-> address,
                      debugger |-> debugger, value |-> r.value,
                      before |-> [ppu |-> ppu, memory |-> memory]]
    /\ UNCHANGED <<i, frame, overflow_checks, mode>>

NormalRead == MapRead(FALSE)
DebuggerRead == MapRead(TRUE)

NextMap ==
    \/ NormalRead
    \/ DebuggerRead

MapSpec == InitMap /\ [][NextMap]_vars

\* C36: a read at an address that no region maps (0x4020..0x7FFF) stops the
\* emulator with the bus-map error in normal mode, and returns 0 and changes
\* nothing as a debugger read; a read in 0x4000..0x401F other than 0x4016 and
\* 0x4017 returns 0 and does not fail.
C36_UnmappedReads ==
    /\ (hist.address \in \h4020 .. \h7fff /\ ~hist.debugger) =>
           panicked = "Could not map memory read"
    /\ (hist.address \in \h4020 .. \h7fff /\ hist.debugger) =>
           /\ panicked = ""
           /\ hist.value = 0
           /\ ppu = hist.before.ppu
           /\ memory = hist.before.memory
    /\ (hist.address \in (\h4000 .. \h401f) \ {\h4016, \h4017}) =>
           /\ panicked = ""
           /\ hist.value = 0

\* the second read of a run, a normal read at 0x5000, has stopped the
\* emulator and changed nothing else
C36_Witness ==
    /\ hist.reads = 2 /\ hist.address = \h5000 /\ ~hist.debugger
    /\ panicked = "Could not map memory read"
    /\ ppu = hist.before.ppu /\ memory = hist.before.memory

(***************************************************************************)
(* The PPU over a frame: the CPU makes the register writes of a script     *)
(* while the PPU stands at scanline 241, dot 1 of its first frame, and the *)
(* PPU then ticks on its own for MaxTicks ticks, a little more than one    *)
(* frame; the CPU may read PPUSTATUS between any two ticks.                *)
(***************************************************************************)
MaxTicks == 89400

\* PPUADDR pair 0x2145 (v = t = 0x2145), then a PPUSCROLL pair that leaves
\* fine_x = 5 and t = 0x616f, then PPUMASK
ScrollWrites ==
    << << \h2006, \h21 >>, << \h2006, \h45 >>, << \h2005, \h7d >>, << \h2005, \h5e >> >>

\* nothing written; scroll set with rendering off (PPUMASK 0x06 shows the
\* leftmost column only, of nothing); scroll set with the background shown
Scripts ==
    { << >>,
      ScrollWrites \o << << \h2001, \h06 >> >>,
      ScrollWrites \o << << \h2001, \h08 >> >> }

\* History of a run.
\*   script  the register writes the CPU makes
\*   done    the number of them made
\*   ticks   the PPU ticks made
\*   before  the PPU before the last step
InitScan ==
    /\ mode = "scan"
    /\ overflow_checks = TRUE
    /\ memory = MemoryDefault("ram7")
    /\ cpu = CpuFromMemory(PpuDefault, MemoryDefault("ram7"))
    /\ ppu = PpuIdle
    /\ i = 0
    /\ frame = 0
    /\ panicked = ""
    /\ \E script \in Scripts :
          hist = [script |-> script, done |-> 0, ticks |-> 0, before |-> PpuIdle]

\* the CPU makes the next write of the script
ScanWrite ==
    /\ mode = "scan"
    /\ panicked = ""
    /\ hist.ticks = 0
    /\ hist.done < Len(hist.script)
    /\ \E t \in {write_byte(Machine(cpu, ppu, memory, overflow_checks),
                            hist.script[hist.done + 1][1],
                            hist.script[hist.done + 1][2])} :
          /\ ppu' = t.ppu
          /\ memory' = t.memory
          /\ panicked' = t.panic
    /\ hist' = [hist EXCEPT !.done = @ + 1, !.before = ppu]
    /\ UNCHANGED <<cpu, i, frame, overflow_checks, mode>>

\* Ppu::execute
ScanTick ==
    /\ mode = "scan"
    /\ panicked = ""
    /\ hist.done = Len(hist.script)
    /\ hist.ticks < MaxTicks
    /\ \E t \in {ppu_execute(Machine(cpu, ppu, memory, overflow_checks))} :
          /\ ppu' = t.ppu
          /\ memory' = t.memory
          /\ panicked' = t.panic
    /\ hist' = [hist EXCEPT !.ticks = @ + 1, !.before = ppu]
    /\ UNCHANGED <<cpu, i, frame, overflow_checks, mode>>

\* the CPU reads PPUSTATUS and finds VBLANK set (a read that finds it clear
\* leaves the PPU of these runs as it is: the latch is clear after a script)
ScanStatusRead ==
    /\ mode = "scan"
    /\ panicked = ""
    /\ hist.done = Len(hist.script)
    /\ hist.ticks > 0
    /\ Contains(ppu.ppu_status, V_BLANK)
    /\ \E r \in {read_byte(Machine(cpu, ppu, memory, overflow_checks), \h2002, FALSE)} :
          /\ ppu' = r.s.ppu
          /\ memory' = r.s.memory
          /\ panicked' = r.s.panic
    /\ hist' = [hist EXCEPT !.before = ppu]
    /\ UNCHANGED <<cpu, i, frame, overflow_checks, mode>>

NextScan ==
    \/ ScanWrite
    \/ ScanTick
    \/ ScanStatusRead

ScanSpec == InitScan /\ [][NextScan]_vars

(***************************************************************************)
(* Properties of the PPU over a frame (specification ScanSpec)             *)
(***************************************************************************)
\* the last step was a PPU tick or a PPUSTATUS read
AfterScript == hist.ticks > 0

\* C31: while neither SHOW_BACKGROUND nor SHOW_SPRITES is set in PPUMASK, a
\* PPU tick at any scanline and dot leaves v, t and fine_x as they were.
C31_ScrollFrozen ==
    (AfterScript /\ ~rendering_enabled(hist.before.ppu_mask)) =>
        /\ ppu.ppu_address = hist.before.ppu_address
        /\ ppu.table_ram_address = hist.before.table_ram_address
        /\ ppu.fine_x = hist.before.fine_x

\* with t = 0x616f and rendering off, the tick at dot 304 of the pre-render
\* scanline, the last of the vertical reloads, has left v = 0x2145
C31_Witness ==
    /\ hist.before.scanline = -1 /\ hist.before.cycles = 304
    /\ ppu.cycles = 305
    /\ ~rendering_enabled(hist.before.ppu_mask)
    /\ ppu.table_ram_address = \h616f /\ ppu.ppu_address = \h2145 /\ ppu.fine_x = 5

\* C35: scanline is in -1..260 and dot in 0..340; a tick at dot 340 moves to
\* dot 0 of the next scanline, and the scanline after 260 is -1.
C35_Position ==
    /\ ppu.scanline \in -1 .. 260
    /\ ppu.cycles \in 0 .. 340
    /\ (AfterScript /\ hist.before.cycles = 340 /\ ppu.cycles # 340) =>
           /\ ppu.cycles = 0
           /\ ppu.scanline = IF hist.before.scanline = 260 THEN -1
                              ELSE hist.before.scanline + 1

\* the tick at scanline 260, dot 340 has moved to scanline -1, dot 0
C35_Witness ==
    /\ hist.before.scanline = 260 /\ hist.before.cycles = 340
    /\ ppu.scanline = -1 /\ ppu.cycles = 0

\* the position lies between scanline 241, dot 2 and scanline -1, dot 1
InVblankWindow(scanline, dot) ==
    \/ scanline = 241 /\ dot >= 2
    \/ scanline \in 242 .. 260
    \/ scanline = -1 /\ dot <= 1

\* C40: if the VBLANK status bit is set then the position, the next dot to
\* process, lies between scanline 241, dot 2 and the pre-render scanline,
\* dot 1; the bit is never set on scanlines 0..240.
C40_VblankWindow ==
    Contains(ppu.ppu_status, V_BLANK) => InVblankWindow(ppu.scanline, ppu.cycles)

\* VBLANK is still set at scanline -1, dot 1, and clear one tick later
\* though no PPUSTATUS read was made
C40_Witness ==
    /\ hist.before.scanline = -1 /\ hist.before.cycles = 1
    /\ Contains(hist.before.ppu_status, V_BLANK)
    /\ ppu.cycles = 2 /\ ~Contains(ppu.ppu_status, V_BLANK)

====
